---- MODULE Spec2Model ----
(***************************************************************************)
(* Model of homelab-sidecars: the inhibitor Lock (pkg/inhibitor), the      *)
(* check helpers and the polling Runner (pkg/check).                       *)
(*                                                                         *)
(* Two specifications share the Lock:                                      *)
(*   Spec      the Runner is the only caller of the Lock (health-inhibitor)*)
(*   SpecLock  NumClients concurrent callers use the Lock API directly     *)
(***************************************************************************)
EXTENDS Integers, Sequences, FiniteSets, TLC

\* ---------------------------------------------------------------- bounds
NumClients == 2        \* concurrent callers of the Lock in SpecLock
MaxCalls == 3          \* Lock API calls made by the clients altogether
MaxCycles == 2         \* interval ticks the Runner processes
NumCheckers == 2       \* longest Runner.Checks
MaxResults == 3        \* longest result list passed to SummarizeFailures
MaxLines == 3          \* lines of the longest mdstat document
MaxCheckerLines == 2   \* lines of the longest mdstat document the RAID Checker reads
MaxTime == 5           \* the latest time the clock reaches
MaxUpdates == 3        \* checkAndUpdate calls of an inhibitor command
MaxDepth == 3          \* frames of transmissionChecker.Check told apart; deeper ones count as MaxDepth
MaxTxChecks == 2       \* Check calls made on the transmissionChecker

\* ------------------------------------------------------- program values
Runner == 0
Clients == 1..NumClients
Threads == 0..NumClients

\* inhibitor.New(who, "System not safe for reboot")
Why == "System not safe for reboot"

\* reasons the clients pass to Acquire / Update ("" selects l.Why)
Reasons == {"", "manual"}

\* Name() of the Checkers that can be configured, in Runner.Checks order
CheckerNames == <<"raid", "network", "jellyfin", "transmission">>

\* err.Error() of the error each Checker's Check returns when it fails, in
\* CheckerNames order; "" stands for a nil error
CheckErrText == <<"degraded", "no route", "streaming", "downloading">>
CheckErrs == {CheckErrText[i] : i \in 1..Len(CheckErrText)}

Canceled == "context canceled"
DeadlineExceeded == "context deadline exceeded"

NilCmd == [nil |-> TRUE, Process |-> 0, why |-> ""]

VARIABLES
  holding,    \* Lock.holding
  cmd,        \* Lock.cmd: NilCmd or [nil |-> FALSE, Process, why]; Process = 0 is a nil cmd.Process
  mu,         \* Lock.mu: 0 when free, else the thread inside the critical section
  procs,      \* external processes started so far: [alive, killed, waited, why]
  pc,         \* per thread: position
  op,         \* per thread: Lock API call in progress
  arg,        \* per thread: reason argument of the call in progress
  ret,        \* per thread: where the call in progress returns to
  res,        \* per thread: error returned by the last Acquire/Release/Update ("nil", "err")
  isH,        \* per thread: value returned by the last IsHolding
  ncalls,     \* Lock API calls made by the clients
  cur,        \* history: the critical section a thread is in
  oplog,      \* history: the last two critical sections the clients completed, in mutex order
  cancelled,  \* the Runner's context is cancelled
  checkCtxErr,\* checkCtx.Err() of the running poll cycle ("" while not done)
  results,    \* results collected by RunAll in the running cycle
  healthy,    \* AllHealthy(results) of the last cycle
  cycles,     \* ticks processed by Run
  retval,     \* value returned by Run ("" while running)
  rcalls,     \* history: Acquire/Release calls the Runner made in the current cycle or shutdown
  atCancel,   \* history: Runner position and lock state when the context was cancelled
  relAfter,   \* history: Release calls the Runner made since the cancellation
  inflight,   \* history: indexes of the Checkers whose Check call is in progress
  invoked,    \* history: the Check calls of the running cycle: [name, err]
  cycleStart, \* history: the Lock and the previous cycle's outcome when the cycle started
  nchecks,    \* len(Runner.Checks)
  logs,       \* the lines the Runner logged in the current cycle or shutdown: [kind, name, text]
  jellyfin,   \* the Jellyfin Checker: NoChecker or [GracePeriod, lastActiveTime]
  clock,      \* wall-clock time, in ticks; 0 is the zero time.Time
  sessions,   \* active sessions on the Jellyfin server
  jlast,      \* history: the last Check call of the Jellyfin Checker
  nupdates,   \* checkAndUpdate calls made by the main loop of an inhibitor command
  side,       \* history: the running or last checkAndUpdate call
  tx,         \* the transmissionChecker and its running Check call
  call        \* the last call of a pure function: [f, in, out]

lockVars == <<holding, cmd, mu, procs, cur, oplog>>
threadVars == <<pc, op, arg, ret, res, isH, ncalls>>
histVars == <<inflight, invoked, cycleStart>>
jellyfinVars == <<jellyfin, clock, sessions, jlast>>
sidecarVars == <<nupdates, side>>
otherVars == <<nchecks, call, jellyfinVars, sidecarVars, tx>>
runVars == <<cancelled, checkCtxErr, results, healthy, cycles, retval, rcalls, atCancel, relAfter,
             inflight, invoked, cycleStart, nchecks, call, jellyfinVars, sidecarVars, tx>>
vars == <<holding, cmd, mu, procs, pc, op, arg, ret, res, isH, ncalls, cur, oplog,
          cancelled, checkCtxErr, results, healthy, cycles, retval, rcalls, atCancel, relAfter,
          inflight, invoked, cycleStart, nchecks, call, logs, jellyfin, clock, sessions, jlast,
          nupdates, side, tx>>

\* Runner.Checks
Checks == SubSeq(CheckerNames, 1, nchecks)

NoCall == [f |-> "none"]
NoChecker == [GracePeriod |-> 0, lastActiveTime |-> 0, made |-> FALSE]
NoCheck == [called |-> FALSE]
NoUpdate == [called |-> FALSE]
NoTxOut == [returned |-> FALSE]

\* &transmissionChecker{url, client}: no session id yet (part_000:17-20); pc is
\* "idle" outside Check, "do" before client.Do and "wait" inside it; depth is
\* the number of frames of Check on the stack, ctx the context of the call,
\* sent the session id of the last request, out the last return value
NewTransmissionChecker ==
  [sessionID |-> "", pc |-> "idle", ctx |-> "none", depth |-> 0, sent |-> "", nchecks |-> 0,
   out |-> NoTxOut]
NoCycle == [first |-> TRUE, cmd |-> NilCmd, nprocs |-> 0, nkilled |-> 0,
            prevOp |-> "none", prevRes |-> "nil", prevHealthy |-> TRUE]

NoEntry == [op |-> "none", pre |-> FALSE, starts |-> 0, startoks |-> 0, kills |-> 0, waits |-> 0,
            res |-> "nil", post |-> FALSE]

\* ------------------------------------------------------------ helpers
Alive == {p \in 1..Len(procs) : procs[p].alive}

\* the last two elements of s
LastTwoOf(s) == IF Len(s) <= 2 THEN s ELSE SubSeq(s, Len(s) - 1, Len(s))

\* AllHealthy (check.go:58-65)
RECURSIVE AllHealthyFrom(_, _)
AllHealthyFrom(rs, i) ==
  IF i > Len(rs) THEN TRUE
  ELSE IF ~rs[i].Healthy THEN FALSE
  ELSE AllHealthyFrom(rs, i + 1)

\* mutant: one healthy result is enough
AllHealthyAny(rs) == \E i \in 1..Len(rs) : rs[i].Healthy

AllHealthy(rs) == AllHealthyFrom(rs, 1)

\* the failures slice built by SummarizeFailures (check.go:69-74)
RECURSIVE Failures(_, _)
Failures(rs, i) ==
  IF i > Len(rs) THEN <<>>
  ELSE IF ~rs[i].Healthy
       THEN <<rs[i].Name \o ": " \o rs[i].Reason>> \o Failures(rs, i + 1)
       ELSE Failures(rs, i + 1)

\* strings.Join(elems, sep)
RECURSIVE Join(_, _)
Join(elems, sep) ==
  IF Len(elems) = 0 THEN ""
  ELSE IF Len(elems) = 1 THEN elems[1]
  ELSE elems[1] \o sep \o Join(Tail(elems), sep)

\* mutant: only the first failure is reported
SummarizeFailuresFirst(rs) ==
  IF Len(Failures(rs, 1)) = 0 THEN "all checks passed"
  ELSE Failures(rs, 1)[1]

\* the Result RunAll builds from the error e a Check call returned, "" for
\* nil (check.go:44-51)
ResultOf(name, e) == [Name |-> name, Healthy |-> (e = ""), Reason |-> e, Err |-> e]

\* SummarizeFailures (check.go:68-79)
SummarizeFailures(rs) ==
  IF Len(Failures(rs, 1)) = 0 THEN "all checks passed"
  ELSE Join(Failures(rs, 1), "; ")

\* ctx.Err() of the Runner's context
CtxErr == IF cancelled THEN Canceled ELSE ""

\* ------------------------------------------------------------- Init
Init ==
  /\ holding = FALSE
  /\ cmd = NilCmd
  /\ mu = 0
  /\ procs = <<>>
  /\ pc = [t \in Threads |-> IF t = Runner THEN "run" ELSE "idle"]
  /\ op = [t \in Threads |-> "none"]
  /\ arg = [t \in Threads |-> ""]
  /\ ret = [t \in Threads |-> IF t = Runner THEN "select" ELSE "idle"]
  /\ res = [t \in Threads |-> "nil"]
  /\ isH = [t \in Threads |-> FALSE]
  /\ ncalls = 0
  /\ cur = [t \in Threads |-> NoEntry]
  /\ oplog = <<>>
  /\ cancelled = FALSE
  /\ checkCtxErr = ""
  /\ results = <<>>
  /\ healthy = TRUE
  /\ cycles = 0
  /\ retval = ""
  /\ rcalls = <<>>
  /\ atCancel = [seen |-> FALSE, held |-> FALSE, pc |-> "none"]
  /\ relAfter = 0
  /\ inflight = {}
  /\ invoked = <<>>
  /\ cycleStart = NoCycle
  /\ nchecks \in 0..NumCheckers
  /\ call = NoCall
  /\ logs = <<>>
  /\ jellyfin = NoChecker
  /\ clock = 1
  /\ sessions = 0
  /\ jlast = NoCheck
  /\ nupdates = 0
  /\ side = NoUpdate
  /\ tx = NewTransmissionChecker

\* mutant: Update goes on to Acquire whatever Release returned
ChainsAfterError(t, val) == op[t] = "Update" /\ pc[t] \in {"rel_body", "rel_wait"}

\* ------------------------------------------------- returning from the Lock
\* Update chains Release into Acquire (inhibitor.go:103-109); every other
\* return goes back to the caller.
Chains(t, val) == op[t] = "Update" /\ pc[t] \in {"rel_body", "rel_wait"} /\ val = "nil"

\* the line the Runner logs when the lock call o it made returns an error
\* (check.go:112-114, 143-145, 148-150)
FailedLine(o, next) ==
  [kind |-> "failed", name |-> "",
   text |-> IF o = "Acquire" THEN "Failed to acquire inhibitor"
            ELSE IF next = "shut_ret" THEN "Failed to release inhibitor on shutdown"
            ELSE "Failed to release inhibitor"]

\* Leave the critical section e of Acquire or Release with error value val,
\* l.holding having the (new) value h: the deferred l.mu.Unlock() runs; the
\* Runner logs an error the call returns.
Return(t, val, h, e) ==
  /\ mu' = 0
  /\ oplog' = IF t \in Clients
               THEN LastTwoOf(Append(oplog, [e EXCEPT !.res = val, !.post = h]))
               ELSE oplog
  /\ cur' = [cur EXCEPT ![t] = NoEntry]
  /\ logs' = IF t = Runner /\ val = "err" THEN Append(logs, FailedLine(op[t], ret[t])) ELSE logs
  /\ IF Chains(t, val)
     THEN /\ pc' = [pc EXCEPT ![t] = "acq_lock"]
          /\ UNCHANGED <<op, arg, res>>
     ELSE /\ pc' = [pc EXCEPT ![t] = ret[t]]
          /\ op' = [op EXCEPT ![t] = "none"]
          /\ arg' = [arg EXCEPT ![t] = ""]
          /\ res' = [res EXCEPT ![t] = val]
  /\ UNCHANGED <<ret, isH, ncalls>>

\* ------------------------------------------------------------ Acquire
\* mutant: Acquire enters its body without taking the mutex
AcquireLockNoMutex(t) ==
  /\ pc[t] = "acq_lock"
  /\ mu' = t
  /\ pc' = [pc EXCEPT ![t] = "acq_body"]
  /\ cur' = [cur EXCEPT ![t] = [NoEntry EXCEPT !.op = "Acquire", !.pre = holding]]
  /\ UNCHANGED <<holding, cmd, procs, oplog, op, arg, ret, res, isH, ncalls>>
  /\ UNCHANGED runVars
  /\ UNCHANGED logs

\* l.mu.Lock() (inhibitor.go:36)
AcquireLock(t) ==
  /\ pc[t] = "acq_lock"
  /\ mu = 0
  /\ mu' = t
  /\ pc' = [pc EXCEPT ![t] = "acq_body"]
  /\ cur' = [cur EXCEPT ![t] = [NoEntry EXCEPT !.op = "Acquire", !.pre = holding]]
  /\ UNCHANGED <<holding, cmd, procs, oplog, op, arg, ret, res, isH, ncalls>>
  /\ UNCHANGED runVars
  /\ UNCHANGED logs

\* mutant: Acquire on a held lock starts another process
AcquireHeldRestarts(t) ==
  /\ pc[t] = "acq_body"
  /\ holding
  /\ procs' = Append(procs, [alive |-> TRUE, killed |-> FALSE, waited |-> FALSE, why |-> arg[t]])
  /\ cmd' = [nil |-> FALSE, Process |-> Len(procs) + 1, why |-> arg[t]]
  /\ Return(t, "nil", holding, [cur[t] EXCEPT !.starts = @ + 1, !.startoks = @ + 1])
  /\ UNCHANGED holding
  /\ UNCHANGED runVars

\* if l.holding { return nil } (inhibitor.go:39-41)
AcquireHeld(t) ==
  /\ pc[t] = "acq_body"
  /\ holding
  /\ Return(t, "nil", holding, cur[t])
  /\ UNCHANGED <<holding, cmd, procs>>
  /\ UNCHANGED runVars

\* the --why argument (inhibitor.go:43-46)
WhyOf(reason) == IF reason # "" THEN reason ELSE Why

\* l.cmd = exec.Command(...); l.cmd.Start() succeeds (inhibitor.go:49-61)
AcquireStartOk(t) ==
  /\ pc[t] = "acq_body"
  /\ ~holding
  /\ procs' = Append(procs, [alive |-> TRUE, killed |-> FALSE, waited |-> FALSE, why |-> WhyOf(arg[t])])
  /\ cmd' = [nil |-> FALSE, Process |-> Len(procs) + 1, why |-> WhyOf(arg[t])]
  /\ cur' = [cur EXCEPT ![t].starts = @ + 1, ![t].startoks = @ + 1]
  /\ pc' = [pc EXCEPT ![t] = "acq_set"]
  /\ UNCHANGED <<holding, mu, oplog, op, arg, ret, res, isH, ncalls>>
  /\ UNCHANGED runVars
  /\ UNCHANGED logs

\* mutant: l.holding is set although Start failed
AcquireStartFailHolds(t) ==
  /\ pc[t] = "acq_body"
  /\ ~holding
  /\ cmd' = [nil |-> FALSE, Process |-> 0, why |-> arg[t]]
  /\ holding' = TRUE
  /\ Return(t, "err", TRUE, [cur[t] EXCEPT !.starts = @ + 1])
  /\ UNCHANGED procs
  /\ UNCHANGED runVars

\* l.cmd.Start() fails: return the wrapped error (inhibitor.go:61-63)
AcquireStartFail(t) ==
  /\ pc[t] = "acq_body"
  /\ ~holding
  /\ cmd' = [nil |-> FALSE, Process |-> 0, why |-> WhyOf(arg[t])]
  /\ Return(t, "err", holding, [cur[t] EXCEPT !.starts = @ + 1])
  /\ UNCHANGED <<holding, procs>>
  /\ UNCHANGED runVars

\* l.holding = true; return nil (inhibitor.go:65-66)
AcquireSet(t) ==
  /\ pc[t] = "acq_set"
  /\ holding' = TRUE
  /\ Return(t, "nil", TRUE, cur[t])
  /\ UNCHANGED <<cmd, procs>>
  /\ UNCHANGED runVars

\* ------------------------------------------------------------ Release
\* l.mu.Lock() (inhibitor.go:71)
ReleaseLock(t) ==
  /\ pc[t] = "rel_lock"
  /\ mu = 0
  /\ mu' = t
  /\ pc' = [pc EXCEPT ![t] = "rel_body"]
  /\ cur' = [cur EXCEPT ![t] = [NoEntry EXCEPT !.op = "Release", !.pre = holding]]
  /\ UNCHANGED <<holding, cmd, procs, oplog, op, arg, ret, res, isH, ncalls>>
  /\ UNCHANGED runVars
  /\ UNCHANGED logs

\* the guard of inhibitor.go:74
NotHolding == ~holding \/ cmd.nil \/ cmd.Process = 0

\* mutant: Release on an idle lock reports an error
ReleaseIdleFails(t) ==
  /\ pc[t] = "rel_body"
  /\ NotHolding
  /\ Return(t, "err", holding, cur[t])
  /\ UNCHANGED <<holding, cmd, procs>>
  /\ UNCHANGED runVars

\* if !l.holding || l.cmd == nil || l.cmd.Process == nil { return nil }
ReleaseIdle(t) ==
  /\ pc[t] = "rel_body"
  /\ NotHolding
  /\ Return(t, "nil", holding, cur[t])
  /\ UNCHANGED <<holding, cmd, procs>>
  /\ UNCHANGED runVars

\* l.cmd.Process.Kill() succeeds: SIGKILL is on its way (inhibitor.go:78)
ReleaseKillOk(t) ==
  /\ pc[t] = "rel_body"
  /\ ~NotHolding
  /\ procs' = [procs EXCEPT ![cmd.Process].killed = TRUE]
  /\ cur' = [cur EXCEPT ![t].kills = @ + 1]
  /\ pc' = [pc EXCEPT ![t] = "rel_wait"]
  /\ UNCHANGED <<holding, cmd, mu, oplog, op, arg, ret, res, isH, ncalls>>
  /\ UNCHANGED runVars
  /\ UNCHANGED logs

\* mutant: a failed Kill still clears the Lock's state
ReleaseKillFailClears(t) ==
  /\ pc[t] = "rel_body"
  /\ ~NotHolding
  /\ holding' = FALSE
  /\ cmd' = NilCmd
  /\ Return(t, "err", FALSE, cur[t])
  /\ UNCHANGED procs
  /\ UNCHANGED runVars

\* l.cmd.Process.Kill() fails: return the wrapped error (inhibitor.go:78-80)
ReleaseKillFail(t) ==
  /\ pc[t] = "rel_body"
  /\ ~NotHolding
  /\ Return(t, "err", holding, cur[t])
  /\ UNCHANGED <<holding, cmd, procs>>
  /\ UNCHANGED runVars

\* what is left of a process once cmd.Wait() has collected it
Reaped == [alive |-> FALSE, killed |-> TRUE, waited |-> TRUE, why |-> ""]

\* mutant: Release flips to idle without waiting for the process to exit
ReleaseWithoutWait(t) ==
  /\ pc[t] = "rel_wait"
  /\ holding' = FALSE
  /\ cmd' = NilCmd
  /\ Return(t, "nil", FALSE, [cur[t] EXCEPT !.waits = @ + 1])
  /\ UNCHANGED procs
  /\ UNCHANGED runVars

\* l.cmd.Wait() returns once the process has exited; then
\* l.holding = false; l.cmd = nil; return nil (inhibitor.go:83-87)
ReleaseWait(t) ==
  /\ pc[t] = "rel_wait"
  /\ ~procs[cmd.Process].alive
  /\ procs' = [procs EXCEPT ![cmd.Process] = Reaped]
  /\ holding' = FALSE
  /\ cmd' = NilCmd
  /\ Return(t, "nil", FALSE, [cur[t] EXCEPT !.waits = @ + 1])
  /\ UNCHANGED runVars

\* ---------------------------------------------------------- IsHolding
\* lock, read l.holding, unlock (inhibitor.go:91-95)
IsHolding(t) ==
  /\ pc[t] = "ish"
  /\ mu = 0
  /\ isH' = [isH EXCEPT ![t] = holding]
  /\ pc' = [pc EXCEPT ![t] = ret[t]]
  /\ op' = [op EXCEPT ![t] = "none"]
  /\ UNCHANGED <<arg, ret, res, ncalls>>
  /\ UNCHANGED lockVars
  /\ UNCHANGED runVars
  /\ UNCHANGED logs

\* ------------------------------------------------------------- Update
\* wasHolding := l.holding under the mutex, then Release (if it was
\* holding) or Acquire (inhibitor.go:99-109)
Update(t) ==
  /\ pc[t] = "upd"
  /\ mu = 0
  /\ pc' = [pc EXCEPT ![t] = IF holding THEN "rel_lock" ELSE "acq_lock"]
  /\ UNCHANGED <<op, arg, ret, res, isH, ncalls>>
  /\ UNCHANGED lockVars
  /\ UNCHANGED runVars
  /\ UNCHANGED logs

\* ------------------------------------------------- the external process
\* a killed process exits
ProcDie(p) ==
  /\ p \in 1..Len(procs)
  /\ procs[p].alive
  /\ procs[p].killed
  /\ procs' = [procs EXCEPT ![p].alive = FALSE]
  /\ UNCHANGED <<holding, cmd, mu, cur, oplog>>
  /\ UNCHANGED threadVars
  /\ UNCHANGED runVars
  /\ UNCHANGED logs

\* systemd-inhibit exits by itself (denied, killed by somebody else, ...)
ProcExit(p) ==
  /\ p \in 1..Len(procs)
  /\ procs[p].alive
  /\ ~procs[p].killed
  /\ procs' = [procs EXCEPT ![p].alive = FALSE]
  /\ UNCHANGED <<holding, cmd, mu, cur, oplog>>
  /\ UNCHANGED threadVars
  /\ UNCHANGED runVars
  /\ UNCHANGED logs

\* ------------------------------------------------------------- clients
Entry(o) ==
  CASE o = "Acquire" -> "acq_lock"
    [] o = "Release" -> "rel_lock"
    [] o = "Update" -> "upd"
    [] o = "IsHolding" -> "ish"

\* a client calls one method of the Lock
ClientCall(t, o, r) ==
  /\ pc[t] = "idle"
  /\ ncalls < MaxCalls
  /\ ncalls' = ncalls + 1
  /\ op' = [op EXCEPT ![t] = o]
  /\ arg' = [arg EXCEPT ![t] = r]
  /\ pc' = [pc EXCEPT ![t] = Entry(o)]
  /\ UNCHANGED <<ret, res, isH>>
  /\ UNCHANGED lockVars
  /\ UNCHANGED runVars
  /\ UNCHANGED logs

LockStep(t) ==
  \/ AcquireLock(t) \/ AcquireHeld(t) \/ AcquireStartOk(t) \/ AcquireStartFail(t) \/ AcquireSet(t)
  \/ ReleaseLock(t) \/ ReleaseIdle(t) \/ ReleaseKillOk(t) \/ ReleaseKillFail(t) \/ ReleaseWait(t)
  \/ IsHolding(t)

NextLock ==
  \/ \E t \in Clients : LockStep(t) \/ Update(t)
  \/ \E t \in Clients : \E r \in Reasons : ClientCall(t, "Acquire", r) \/ ClientCall(t, "Update", r)
  \/ \E t \in Clients : ClientCall(t, "Release", "") \/ ClientCall(t, "IsHolding", "")
  \/ \E p \in 1..Len(procs) : ProcDie(p)
  \/ \E p \in 1..Len(procs) : ProcExit(p)

\* the Lock on its own: the Runner is not started, its Checker list plays no part
InitLock == Init /\ nchecks = NumCheckers

SpecLock == InitLock /\ [][NextLock]_vars

\* ------------------------------------------------------------- Runner
\* runOnce starts: checkCtx derives from ctx (check.go:124), RunAll starts
\* with an empty result list (check.go:29)
BeginCycle ==
  /\ pc' = [pc EXCEPT ![Runner] = "runall"]
  /\ results' = <<>>
  /\ checkCtxErr' = CtxErr
  /\ rcalls' = <<>>
  /\ inflight' = {}
  /\ invoked' = <<>>
  /\ logs' = <<>>
  /\ cycleStart' = [first |-> pc[Runner] = "run",
                    cmd |-> cmd,
                    nprocs |-> Len(procs),
                    nkilled |-> Cardinality({p \in 1..Len(procs) : procs[p].killed}),
                    prevOp |-> IF rcalls = <<>> THEN "none" ELSE rcalls[1].op,
                    prevRes |-> res[Runner],
                    prevHealthy |-> healthy]

\* mutant: Run goes to its select without the evaluation at startup
RunStartWaits ==
  /\ pc[Runner] = "run"
  /\ pc' = [pc EXCEPT ![Runner] = "select"]
  /\ UNCHANGED <<op, arg, ret, res, isH, ncalls>>
  /\ UNCHANGED runVars
  /\ UNCHANGED lockVars
  /\ UNCHANGED logs

\* r.runOnce(ctx) before the ticker is created (check.go:102)
RunStart ==
  /\ pc[Runner] = "run"
  /\ BeginCycle
  /\ UNCHANGED <<op, arg, ret, res, isH, ncalls>>
  /\ UNCHANGED <<cancelled, healthy, cycles, retval, atCancel, relAfter>>
  /\ UNCHANGED otherVars
  /\ UNCHANGED lockVars

\* RunAll: checkCtx is done before the next Checker starts (check.go:31-39)
RunAllTimeout ==
  /\ pc[Runner] = "runall"
  /\ Len(results) < Len(Checks)
  /\ checkCtxErr # ""
  /\ results' = Append(results, [Name |-> Checks[Len(results) + 1], Healthy |-> FALSE,
                                 Reason |-> "timeout", Err |-> checkCtxErr])
  /\ pc' = [pc EXCEPT ![Runner] = "manage"]
  /\ UNCHANGED <<op, arg, ret, res, isH, ncalls>>
  /\ UNCHANGED <<cancelled, checkCtxErr, healthy, cycles, retval, rcalls, atCancel, relAfter>>
  /\ UNCHANGED histVars
  /\ UNCHANGED otherVars
  /\ UNCHANGED lockVars
  /\ UNCHANGED logs

\* mutant: RunAll starts the Check calls of all remaining Checkers at once
RunAllInvokeAll ==
  /\ pc[Runner] = "runall"
  /\ Len(results) < Len(Checks)
  /\ checkCtxErr = ""
  /\ pc' = [pc EXCEPT ![Runner] = "checking"]
  /\ inflight' = inflight \cup ((Len(results) + 1)..Len(Checks))
  /\ UNCHANGED <<op, arg, ret, res, isH, ncalls>>
  /\ UNCHANGED <<cancelled, checkCtxErr, results, healthy, cycles, retval, rcalls, atCancel, relAfter>>
  /\ UNCHANGED <<invoked, cycleStart>>
  /\ UNCHANGED otherVars
  /\ UNCHANGED lockVars
  /\ UNCHANGED logs

\* RunAll: checkCtx is not done, c.Check(ctx) is called for the next
\* Checker (check.go:40-43)
RunAllInvoke ==
  /\ pc[Runner] = "runall"
  /\ Len(results) < Len(Checks)
  /\ checkCtxErr = ""
  /\ pc' = [pc EXCEPT ![Runner] = "checking"]
  /\ inflight' = inflight \cup {Len(results) + 1}
  /\ UNCHANGED <<op, arg, ret, res, isH, ncalls>>
  /\ UNCHANGED <<cancelled, checkCtxErr, results, healthy, cycles, retval, rcalls, atCancel, relAfter>>
  /\ UNCHANGED <<invoked, cycleStart>>
  /\ UNCHANGED otherVars
  /\ UNCHANGED lockVars
  /\ UNCHANGED logs

\* mutant: the Result of a failed Check keeps the error but not its text
RunAllCheckNoReason(e) ==
  /\ pc[Runner] = "checking"
  /\ e \in {"", CheckErrText[Len(results) + 1]}
  /\ results' = Append(results, [Name |-> Checks[Len(results) + 1], Healthy |-> (e = ""),
                                 Reason |-> "", Err |-> e])
  /\ invoked' = Append(invoked, [name |-> Checks[Len(results) + 1], err |-> e])
  /\ inflight' = inflight \ {Len(results) + 1}
  /\ pc' = [pc EXCEPT ![Runner] = "runall"]
  /\ UNCHANGED <<op, arg, ret, res, isH, ncalls>>
  /\ UNCHANGED <<cancelled, checkCtxErr, healthy, cycles, retval, rcalls, atCancel, relAfter>>
  /\ UNCHANGED cycleStart
  /\ UNCHANGED otherVars
  /\ UNCHANGED lockVars
  /\ UNCHANGED logs

\* RunAll: the Check call returns e ("" for nil) and its Result is
\* appended; an error value is modelled by its text (check.go:43-52)
RunAllCheck(e) ==
  /\ pc[Runner] = "checking"
  /\ e \in {"", CheckErrText[Len(results) + 1]}
  /\ results' = Append(results, ResultOf(Checks[Len(results) + 1], e))
  /\ invoked' = Append(invoked, [name |-> Checks[Len(results) + 1], err |-> e])
  /\ inflight' = inflight \ {Len(results) + 1}
  /\ pc' = [pc EXCEPT ![Runner] = "runall"]
  /\ UNCHANGED <<op, arg, ret, res, isH, ncalls>>
  /\ UNCHANGED <<cancelled, checkCtxErr, healthy, cycles, retval, rcalls, atCancel, relAfter>>
  /\ UNCHANGED cycleStart
  /\ UNCHANGED otherVars
  /\ UNCHANGED lockVars
  /\ UNCHANGED logs

\* RunAll: the loop over the Checkers is over (check.go:54)
RunAllReturn ==
  /\ pc[Runner] = "runall"
  /\ Len(results) = Len(Checks)
  /\ pc' = [pc EXCEPT ![Runner] = "manage"]
  /\ UNCHANGED <<op, arg, ret, res, isH, ncalls>>
  /\ UNCHANGED runVars
  /\ UNCHANGED lockVars
  /\ UNCHANGED logs

\* the line runOnce logs for one result (check.go:132-136)
ResultLine(r) ==
  [kind |-> "result", name |-> r.Name,
   text |-> IF r.Healthy THEN "[" \o r.Name \o "] healthy"
            ELSE "[" \o r.Name \o "] unhealthy: " \o r.Reason]

AcquiringLine(reason) == [kind |-> "acquiring", name |-> "", text |-> "Acquiring inhibitor: " \o reason]
ReleasingLine == [kind |-> "releasing", name |-> "", text |-> "Releasing inhibitor: all checks passed"]

\* healthy := AllHealthy(results); one line is logged per result; then the
\* first IsHolding call of `!healthy && !IsHolding()` or of
\* `healthy && IsHolding()` (check.go:128-146)
Manage ==
  /\ pc[Runner] = "manage"
  /\ healthy' = AllHealthy(results)
  /\ logs' = [i \in 1..Len(results) |-> ResultLine(results[i])]
  /\ pc' = [pc EXCEPT ![Runner] = "ish"]
  /\ op' = [op EXCEPT ![Runner] = "IsHolding"]
  /\ ret' = [ret EXCEPT ![Runner] = IF AllHealthy(results) THEN "dec_rel" ELSE "dec_acq"]
  /\ UNCHANGED <<arg, res, isH, ncalls>>
  /\ UNCHANGED <<cancelled, checkCtxErr, results, cycles, retval, rcalls, atCancel, relAfter>>
  /\ UNCHANGED histVars
  /\ UNCHANGED otherVars
  /\ UNCHANGED lockVars

\* the Runner calls Acquire or Release and goes on at label next
RunnerCall(o, r, next) ==
  /\ pc' = [pc EXCEPT ![Runner] = Entry(o)]
  /\ op' = [op EXCEPT ![Runner] = o]
  /\ arg' = [arg EXCEPT ![Runner] = r]
  /\ ret' = [ret EXCEPT ![Runner] = next]
  /\ rcalls' = Append(rcalls, [op |-> o, arg |-> r])
  /\ relAfter' = IF o = "Release" /\ cancelled THEN relAfter + 1 ELSE relAfter
  /\ UNCHANGED <<res, isH, ncalls>>

\* mutant: the Runner acquires without passing the summary
CycleAcquireNoReason ==
  /\ pc[Runner] = "dec_acq"
  /\ ~isH[Runner]
  /\ RunnerCall("Acquire", "", "select")
  /\ logs' = Append(logs, AcquiringLine(""))
  /\ UNCHANGED <<cancelled, checkCtxErr, results, healthy, cycles, retval, atCancel>>
  /\ UNCHANGED histVars
  /\ UNCHANGED otherVars
  /\ UNCHANGED lockVars

\* mutant: the Runner does not try again after a lock call that failed
CycleAcquireGivesUp ==
  /\ pc[Runner] = "dec_acq"
  /\ ~isH[Runner]
  /\ IF res[Runner] = "err"
     THEN /\ pc' = [pc EXCEPT ![Runner] = "select"]
          /\ UNCHANGED <<op, arg, ret, rcalls, relAfter>>
          /\ UNCHANGED <<res, isH, ncalls, logs>>
     ELSE /\ RunnerCall("Acquire", SummarizeFailures(results), "select")
          /\ logs' = Append(logs, AcquiringLine(SummarizeFailures(results)))
  /\ UNCHANGED <<cancelled, checkCtxErr, results, healthy, cycles, retval, atCancel>>
  /\ UNCHANGED histVars
  /\ UNCHANGED otherVars
  /\ UNCHANGED lockVars

\* unhealthy and not holding: log "Acquiring inhibitor: <summary>" and
\* Acquire(SummarizeFailures(results)) (check.go:140-145)
CycleAcquire ==
  /\ pc[Runner] = "dec_acq"
  /\ ~isH[Runner]
  /\ logs' = Append(logs, AcquiringLine(SummarizeFailures(results)))
  /\ RunnerCall("Acquire", SummarizeFailures(results), "select")
  /\ UNCHANGED <<cancelled, checkCtxErr, results, healthy, cycles, retval, atCancel>>
  /\ UNCHANGED histVars
  /\ UNCHANGED otherVars
  /\ UNCHANGED lockVars

\* mutant: unhealthy and holding, the Runner drops the lock to take it again
CycleStayHeldChurns ==
  /\ pc[Runner] = "dec_acq"
  /\ isH[Runner]
  /\ RunnerCall("Release", "", "select")
  /\ UNCHANGED <<cancelled, checkCtxErr, results, healthy, cycles, retval, atCancel>>
  /\ UNCHANGED histVars
  /\ UNCHANGED otherVars
  /\ UNCHANGED lockVars
  /\ UNCHANGED logs

\* unhealthy and holding: neither branch is taken (check.go:140,146)
CycleStayHeld ==
  /\ pc[Runner] = "dec_acq"
  /\ isH[Runner]
  /\ pc' = [pc EXCEPT ![Runner] = "select"]
  /\ UNCHANGED <<op, arg, ret, res, isH, ncalls>>
  /\ UNCHANGED runVars
  /\ UNCHANGED lockVars
  /\ UNCHANGED logs

\* mutant: healthy and holding, but the Runner leaves the lock alone
CycleReleaseSkips ==
  /\ pc[Runner] = "dec_rel"
  /\ isH[Runner]
  /\ pc' = [pc EXCEPT ![Runner] = "select"]
  /\ UNCHANGED <<op, arg, ret, res, isH, ncalls>>
  /\ UNCHANGED runVars
  /\ UNCHANGED lockVars
  /\ UNCHANGED logs

\* healthy and holding: log "Releasing inhibitor: ..." and Release()
\* (check.go:146-150)
CycleRelease ==
  /\ pc[Runner] = "dec_rel"
  /\ isH[Runner]
  /\ logs' = Append(logs, ReleasingLine)
  /\ RunnerCall("Release", "", "select")
  /\ UNCHANGED <<cancelled, checkCtxErr, results, healthy, cycles, retval, atCancel>>
  /\ UNCHANGED histVars
  /\ UNCHANGED otherVars
  /\ UNCHANGED lockVars

\* healthy and not holding: neither branch is taken (check.go:140,146)
CycleStayIdle ==
  /\ pc[Runner] = "dec_rel"
  /\ ~isH[Runner]
  /\ pc' = [pc EXCEPT ![Runner] = "select"]
  /\ UNCHANGED <<op, arg, ret, res, isH, ncalls>>
  /\ UNCHANGED runVars
  /\ UNCHANGED lockVars
  /\ UNCHANGED logs

\* select: case <-ticker.C: r.runOnce(ctx) (check.go:117-118)
SelectTick ==
  /\ pc[Runner] = "select"
  /\ cycles < MaxCycles
  /\ cycles' = cycles + 1
  /\ BeginCycle
  /\ UNCHANGED <<op, arg, ret, res, isH, ncalls>>
  /\ UNCHANGED <<cancelled, healthy, retval, atCancel, relAfter>>
  /\ UNCHANGED otherVars
  /\ UNCHANGED lockVars

\* mutant: on cancellation Run starts another poll cycle instead of returning
SelectDoneRunsOnce ==
  /\ pc[Runner] = "select"
  /\ cancelled
  /\ BeginCycle
  /\ UNCHANGED <<op, arg, ret, res, isH, ncalls>>
  /\ UNCHANGED <<cancelled, healthy, cycles, retval, atCancel, relAfter>>
  /\ UNCHANGED otherVars
  /\ UNCHANGED lockVars

\* select: case <-ctx.Done(): r.Lock.IsHolding() (check.go:109-111)
SelectDone ==
  /\ pc[Runner] = "select"
  /\ cancelled
  /\ pc' = [pc EXCEPT ![Runner] = "ish"]
  /\ op' = [op EXCEPT ![Runner] = "IsHolding"]
  /\ ret' = [ret EXCEPT ![Runner] = "shut_rel"]
  /\ rcalls' = <<>>
  /\ logs' = <<>>
  /\ UNCHANGED <<arg, res, isH, ncalls>>
  /\ UNCHANGED <<cancelled, checkCtxErr, results, healthy, cycles, retval, atCancel, relAfter>>
  /\ UNCHANGED histVars
  /\ UNCHANGED otherVars
  /\ UNCHANGED lockVars

\* mutant: Run returns on cancellation without releasing
ShutdownForgetsRelease ==
  /\ pc[Runner] = "shut_rel"
  /\ isH[Runner]
  /\ pc' = [pc EXCEPT ![Runner] = "shut_ret"]
  /\ UNCHANGED <<op, arg, ret, res, isH, ncalls>>
  /\ UNCHANGED runVars
  /\ UNCHANGED lockVars
  /\ UNCHANGED logs

\* shutdown, holding: r.Lock.Release() (check.go:111-115)
ShutdownRelease ==
  /\ pc[Runner] = "shut_rel"
  /\ isH[Runner]
  /\ RunnerCall("Release", "", "shut_ret")
  /\ UNCHANGED <<cancelled, checkCtxErr, results, healthy, cycles, retval, atCancel>>
  /\ UNCHANGED histVars
  /\ UNCHANGED otherVars
  /\ UNCHANGED lockVars
  /\ UNCHANGED logs

\* shutdown, not holding (check.go:111)
ShutdownSkip ==
  /\ pc[Runner] = "shut_rel"
  /\ ~isH[Runner]
  /\ pc' = [pc EXCEPT ![Runner] = "shut_ret"]
  /\ UNCHANGED <<op, arg, ret, res, isH, ncalls>>
  /\ UNCHANGED runVars
  /\ UNCHANGED lockVars
  /\ UNCHANGED logs

\* return ctx.Err() (check.go:116)
RunReturn ==
  /\ pc[Runner] = "shut_ret"
  /\ retval' = CtxErr
  /\ pc' = [pc EXCEPT ![Runner] = "returned"]
  /\ UNCHANGED <<op, arg, ret, res, isH, ncalls>>
  /\ UNCHANGED <<cancelled, checkCtxErr, results, healthy, cycles, rcalls, atCancel, relAfter>>
  /\ UNCHANGED histVars
  /\ UNCHANGED otherVars
  /\ UNCHANGED lockVars
  /\ UNCHANGED logs

\* cancel() of the Runner's context, from the signal goroutine
\* (main of health-inhibitor); a running checkCtx is cancelled with it
Cancel ==
  /\ ~cancelled
  /\ pc[Runner] # "returned"
  /\ cancelled' = TRUE
  /\ checkCtxErr' = IF pc[Runner] \in {"runall", "checking"} /\ checkCtxErr = ""
                    THEN Canceled ELSE checkCtxErr
  /\ atCancel' = [seen |-> TRUE, held |-> holding,
                  pc |-> IF pc[Runner] = "select" THEN "select" ELSE "busy"]
  /\ UNCHANGED threadVars
  /\ UNCHANGED <<results, healthy, cycles, retval, rcalls, relAfter>>
  /\ UNCHANGED histVars
  /\ UNCHANGED otherVars
  /\ UNCHANGED lockVars
  /\ UNCHANGED logs

\* the per-cycle timeout of checkCtx expires (check.go:124)
DeadlineExpire ==
  /\ pc[Runner] \in {"runall", "checking"}
  /\ checkCtxErr = ""
  /\ checkCtxErr' = DeadlineExceeded
  /\ UNCHANGED threadVars
  /\ UNCHANGED <<cancelled, results, healthy, cycles, retval, rcalls, atCancel, relAfter>>
  /\ UNCHANGED histVars
  /\ UNCHANGED otherVars
  /\ UNCHANGED lockVars
  /\ UNCHANGED logs

\* The Runner is the only caller: it finds the mutex free, calls Acquire
\* only after IsHolding() = false and Release only after IsHolding() = true.
Next ==
  \/ RunStart
  \/ RunAllTimeout
  \/ RunAllInvoke
  \/ \E e \in CheckErrs \cup {""} : RunAllCheck(e)
  \/ RunAllReturn
  \/ Manage
  \/ CycleAcquire
  \/ CycleStayHeld
  \/ CycleRelease
  \/ CycleStayIdle
  \/ SelectTick
  \/ SelectDone
  \/ ShutdownRelease
  \/ ShutdownSkip
  \/ RunReturn
  \/ Cancel
  \/ DeadlineExpire
  \/ IsHolding(Runner)
  \/ AcquireLock(Runner)
  \/ AcquireStartOk(Runner)
  \/ AcquireStartFail(Runner)
  \/ AcquireSet(Runner)
  \/ ReleaseLock(Runner)
  \/ ReleaseKillOk(Runner)
  \/ ReleaseKillFail(Runner)
  \/ ReleaseWait(Runner)
  \/ \E p \in 1..Len(procs) : ProcDie(p)
  \/ \E p \in 1..Len(procs) : ProcExit(p)

Spec == Init /\ [][Next]_vars

\* The steps of Run and of the calls it makes, and the exit of a killed
\* process: everything but the cancellation, the deadline and a process
\* that exits by itself.
RunnerStep ==
  \/ RunStart
  \/ RunAllTimeout
  \/ RunAllInvoke
  \/ \E e \in CheckErrs \cup {""} : RunAllCheck(e)
  \/ RunAllReturn
  \/ Manage
  \/ CycleAcquire
  \/ CycleStayHeld
  \/ CycleRelease
  \/ CycleStayIdle
  \/ SelectTick
  \/ SelectDone
  \/ ShutdownRelease
  \/ ShutdownSkip
  \/ RunReturn
  \/ IsHolding(Runner)
  \/ AcquireLock(Runner)
  \/ AcquireStartOk(Runner)
  \/ AcquireStartFail(Runner)
  \/ AcquireSet(Runner)
  \/ ReleaseLock(Runner)
  \/ ReleaseKillOk(Runner)
  \/ ReleaseKillFail(Runner)
  \/ ReleaseWait(Runner)
  \/ \E p \in 1..Len(procs) : ProcDie(p)

\* Run with its scheduling: the goroutine of Run keeps running, every
\* Checker call and lock call returns, a killed process exits, and the
\* select of Run (check.go:108-119) does not pass over a ready ctx.Done()
\* for ever. The Runner has no Checker or one: what Run waits for is the
\* same for each Checker call.
InitLive == Init /\ nchecks <= 1
SpecLive == InitLive /\ [][Next]_vars /\ WF_vars(RunnerStep) /\ SF_vars(SelectDone)

\* =====================================================================
\* Package raid: the mdstat parser and Check
\* =====================================================================
\* A line of the document, by what the three patterns of parseMdstatReader
\* find in it: array and level are the name and the level arrayLine
\* captures ("" when it does not match), bitmap the [U_]+ group of
\* statusLine as a sequence of characters (<<>> when it does not match) with
\* total and active the two numbers in front of it, pct the percentage
\* recoveryLine captures ("" when it does not match). resync is the
\* percentage of a "resync = ..." marker, which no pattern looks for.
Line(a, l, b, t, n, p, s) ==
  [array |-> a, level |-> l, bitmap |-> b, total |-> t, active |-> n, pct |-> p, resync |-> s]

ArrayNames == {"md0", "md1"}

\* the lines the documents are made of: a raid1 header per name and a raid0
\* header, a clean and a degraded slot line, a recovery line, a line with a
\* degraded slot marker and a recovery marker, a resync line, and a line
\* with nothing of all this
Lines ==
  {Line(a, "raid1", <<>>, 0, 0, "", "") : a \in ArrayNames}
    \cup {Line("md1", "raid0", <<>>, 0, 0, "", ""),
          Line("", "", <<"U", "U">>, 2, 2, "", ""),
          Line("", "", <<"U", "_">>, 2, 1, "", ""),
          Line("", "", <<>>, 0, 0, "17.5%", ""),
          Line("", "", <<"U", "_">>, 2, 1, "17.5%", ""),
          Line("", "", <<>>, 0, 0, "", "12.6%"),
          Line("", "", <<>>, 0, 0, "", "")}

\* the expectedArrays lists Check is called with
ExpectedLists == {<<>>, <<"md0">>, <<"md1">>, <<"md0", "md1">>, <<"md1", "md0">>}

\* matches[3] of statusLine as a string
RECURSIVE Text(_)
Text(chars) == IF chars = <<>> THEN "" ELSE Head(chars) \o Text(Tail(chars))

\* strings.Contains(matches[3], "_")
Contains(chars, c) == \E i \in 1..Len(chars) : chars[i] = c

\* mutant: a new record starts out healthy
NewStatusHealthy(line) ==
  [Name |-> line.array, State |-> "active", Level |-> line.level, Devices |-> 0, Active |-> 0,
   DeviceList |-> "", Healthy |-> TRUE, Rebuilding |-> FALSE, Progress |-> ""]

\* &Status{Name: matches[1], State: matches[2], Level: matches[3]}
\* (status_test.go:296-300)
NewStatus(line) ==
  [Name |-> line.array, State |-> "active", Level |-> line.level, Devices |-> 0, Active |-> 0,
   DeviceList |-> "", Healthy |-> FALSE, Rebuilding |-> FALSE, Progress |-> ""]

\* the statusLine branch (status_test.go:309-314)
WithStatus(st, line) ==
  IF line.bitmap = <<>> THEN st
  ELSE [st EXCEPT !.Devices = line.total,
                  !.Active = line.active,
                  !.DeviceList = "[" \o Text(line.bitmap) \o "]",
                  !.Healthy = ~Contains(line.bitmap, "_")]

\* mutant: a recovery line leaves the health read from the slot line alone
WithRecoveryKeepsHealthy(st, line) ==
  IF line.pct = "" THEN st
  ELSE [st EXCEPT !.Rebuilding = TRUE, !.Progress = line.pct]

\* the recoveryLine branch (status_test.go:317-321)
WithRecovery(st, line) ==
  IF line.pct = "" THEN st
  ELSE [st EXCEPT !.Rebuilding = TRUE, !.Progress = line.pct, !.Healthy = FALSE]

\* the scanner loop of parseMdstatReader from line i on; current is <<>>
\* for a nil pointer and <<status>> otherwise (status_test.go:288-328)
RECURSIVE ParseFrom(_, _, _, _)
ParseFrom(lines, i, statuses, current) ==
  IF i > Len(lines) THEN statuses \o current
  ELSE IF lines[i].array # ""
       THEN ParseFrom(lines, i + 1, statuses \o current, <<NewStatus(lines[i])>>)
  ELSE IF current = <<>>
       THEN ParseFrom(lines, i + 1, statuses, current)
  ELSE ParseFrom(lines, i + 1, statuses,
                 <<WithRecovery(WithStatus(current[1], lines[i]), lines[i])>>)

parseMdstatReader(lines) == ParseFrom(lines, 1, <<>>, <<>>)

\* The file at mdstatPath: err is the error of os.Open ("" for nil), lines
\* its content when it can be opened
File(e, lines) == [err |-> e, lines |-> lines]
OpenErr == "open /proc/mdstat: no such file or directory"
Unreadable == File(OpenErr, <<>>)

\* ParseMdstat(path): the error of os.Open with a nil slice, or the
\* statuses of parseMdstatReader (status_test.go:267-275)
ParseMdstat(file) ==
  IF file.err # "" THEN [statuses |-> <<>>, err |-> file.err]
  ELSE [statuses |-> parseMdstatReader(file.lines), err |-> ""]

\* mutant: an expected array with no record is passed over
RECURSIVE CheckArrayIgnoresMissing(_, _, _, _)
CheckArrayIgnoresMissing(statuses, expected, i, found) ==
  IF i > Len(statuses)
  THEN [done |-> FALSE, healthy |-> TRUE, reason |-> ""]
  ELSE IF statuses[i].Name = expected
       THEN IF ~statuses[i].Healthy
            THEN IF statuses[i].Rebuilding
                 THEN [done |-> TRUE, healthy |-> FALSE,
                       reason |-> statuses[i].Name \o " rebuilding: " \o statuses[i].Progress]
                 ELSE [done |-> TRUE, healthy |-> FALSE,
                       reason |-> statuses[i].Name \o " degraded: " \o statuses[i].DeviceList]
            ELSE CheckArrayIgnoresMissing(statuses, expected, i + 1, TRUE)
       ELSE CheckArrayIgnoresMissing(statuses, expected, i + 1, found)

\* mutant: an unhealthy record fails the check whatever its name is
RECURSIVE CheckArrayAnyUnhealthy(_, _, _, _)
CheckArrayAnyUnhealthy(statuses, expected, i, found) ==
  IF i > Len(statuses)
  THEN IF found THEN [done |-> FALSE, healthy |-> TRUE, reason |-> ""]
       ELSE [done |-> TRUE, healthy |-> FALSE,
             reason |-> "expected array " \o expected \o " not found"]
  ELSE IF ~statuses[i].Healthy
       THEN IF statuses[i].Rebuilding
            THEN [done |-> TRUE, healthy |-> FALSE,
                  reason |-> statuses[i].Name \o " rebuilding: " \o statuses[i].Progress]
            ELSE [done |-> TRUE, healthy |-> FALSE,
                  reason |-> statuses[i].Name \o " degraded: " \o statuses[i].DeviceList]
       ELSE CheckArrayAnyUnhealthy(statuses, expected, i + 1,
                                   found \/ statuses[i].Name = expected)

\* the inner loop of Check over the statuses, from index i on, for one
\* expected name: a result when Check returns from inside or after the
\* loop, done = FALSE when it goes on with the next expected name
\* (status_test.go:241-255)
RECURSIVE CheckArray(_, _, _, _)
CheckArray(statuses, expected, i, found) ==
  IF i > Len(statuses)
  THEN IF found THEN [done |-> FALSE, healthy |-> TRUE, reason |-> ""]
       ELSE [done |-> TRUE, healthy |-> FALSE,
             reason |-> "expected array " \o expected \o " not found"]
  ELSE IF statuses[i].Name = expected
       THEN IF ~statuses[i].Healthy
            THEN IF statuses[i].Rebuilding
                 THEN [done |-> TRUE, healthy |-> FALSE,
                       reason |-> statuses[i].Name \o " rebuilding: " \o statuses[i].Progress]
                 ELSE [done |-> TRUE, healthy |-> FALSE,
                       reason |-> statuses[i].Name \o " degraded: " \o statuses[i].DeviceList]
            ELSE CheckArray(statuses, expected, i + 1, TRUE)
       ELSE CheckArray(statuses, expected, i + 1, found)

\* the names slice of Check (status_test.go:259-262)
Names(statuses) == [i \in 1..Len(statuses) |-> statuses[i].Name]

\* mutant: the healthy reason lists the expected arrays
RECURSIVE CheckExpectedOnly(_, _, _)
CheckExpectedOnly(statuses, expectedArrays, k) ==
  IF k > Len(expectedArrays)
  THEN [healthy |-> TRUE, reason |-> "all healthy: " \o Join(expectedArrays, ", ")]
  ELSE LET r == CheckArray(statuses, expectedArrays[k], 1, FALSE)
       IN IF r.done THEN [healthy |-> r.healthy, reason |-> r.reason]
          ELSE CheckExpectedOnly(statuses, expectedArrays, k + 1)

\* mutant: Check goes through the whole expected list and reports the last
\* array that fails
RECURSIVE CheckExpectedLast(_, _, _)
CheckExpectedLast(statuses, expectedArrays, k) ==
  IF k > Len(expectedArrays)
  THEN [healthy |-> TRUE, reason |-> "all healthy: " \o Join(Names(statuses), ", ")]
  ELSE LET r == CheckArray(statuses, expectedArrays[k], 1, FALSE)
           rest == CheckExpectedLast(statuses, expectedArrays, k + 1)
       IN IF ~rest.healthy THEN rest
          ELSE IF r.done THEN [healthy |-> r.healthy, reason |-> r.reason]
          ELSE rest

\* the loop of Check over expectedArrays, from index k on, and the healthy
\* return after it (status_test.go:240-263)
RECURSIVE CheckExpected(_, _, _)
CheckExpected(statuses, expectedArrays, k) ==
  IF k > Len(expectedArrays)
  THEN [healthy |-> TRUE, reason |-> "all healthy: " \o Join(Names(statuses), ", ")]
  ELSE LET r == CheckArray(statuses, expectedArrays[k], 1, FALSE)
       IN IF r.done THEN [healthy |-> r.healthy, reason |-> r.reason]
          ELSE CheckExpected(statuses, expectedArrays, k + 1)

\* mutant: the test for an empty list of statuses is left out
CheckNoEmptyCase(file, expectedArrays) ==
  LET parsed == ParseMdstat(file)
  IN IF parsed.err # ""
     THEN [healthy |-> FALSE, reason |-> "", err |-> "failed to read mdstat: " \o parsed.err]
     ELSE LET r == CheckExpected(parsed.statuses, expectedArrays, 1)
          IN [healthy |-> r.healthy, reason |-> r.reason, err |-> ""]

\* Check(mdstatPath, expectedArrays): healthy, reason and the text of err,
\* "" for nil (status_test.go:229-264)
Check(file, expectedArrays) ==
  LET parsed == ParseMdstat(file)
  IN IF parsed.err # ""
     THEN [healthy |-> FALSE, reason |-> "", err |-> "failed to read mdstat: " \o parsed.err]
     ELSE IF Len(parsed.statuses) = 0
     THEN [healthy |-> FALSE, reason |-> "no RAID arrays found", err |-> ""]
     ELSE LET r == CheckExpected(parsed.statuses, expectedArrays, 1)
          IN [healthy |-> r.healthy, reason |-> r.reason, err |-> ""]

\* mutant: an error of raid.Check is dropped
CheckerCheckDropsErr(ctxErr, file, arrays) ==
  IF ctxErr # "" THEN ctxErr
  ELSE LET r == Check(file, arrays)
       IN IF r.err # "" THEN ""
          ELSE IF ~r.healthy THEN r.reason
          ELSE ""

\* Checker.Check of the RAID Checker: the error it returns, by its text
\* (raid/check.go:32-48)
CheckerCheck(ctxErr, file, arrays) ==
  IF ctxErr # "" THEN ctxErr
  ELSE LET r == Check(file, arrays)
       IN IF r.err # "" THEN "raid check failed: " \o r.err
          ELSE IF ~r.healthy THEN r.reason
          ELSE ""

\* =====================================================================
\* The pure functions of the packages, applied to bounded inputs
\* =====================================================================
\* everything but the record of the last call
pureFrame == <<lockVars, threadVars, cancelled, checkCtxErr, results, healthy, cycles, retval,
               rcalls, atCancel, relAfter, histVars, nchecks, logs, jellyfinVars, sidecarVars, tx>>

\* Result values (check.go:19-24); Err is the error whose text is Reason
ResultNames == {"raid", "network"}
ResultReasons == {"", "degraded"}
ResultValues ==
  {[Name |-> n, Healthy |-> h, Reason |-> r, Err |-> r] :
     n \in ResultNames, h \in BOOLEAN, r \in ResultReasons}

\* sequences over S of length at most n
SeqsUpTo(S, n) == UNION {[1..k -> S] : k \in 0..n}

\* SummarizeFailures(results) is called on a list drawn from the bounded
\* set (check.go:68-79)
CallSummarizeFailures(rs) ==
  /\ call = NoCall
  /\ call' = [f |-> "SummarizeFailures", in |-> rs, out |-> SummarizeFailures(rs)]
  /\ UNCHANGED pureFrame

\* raid.Check is called on a document and an expected list drawn from the
\* bounded sets (status_test.go:229-264)
CallCheck(file, expectedArrays) ==
  /\ call = NoCall
  /\ call' = [f |-> "Check", file |-> file, in |-> file.lines, expected |-> expectedArrays,
              statuses |-> ParseMdstat(file).statuses, out |-> Check(file, expectedArrays)]
  /\ UNCHANGED pureFrame

\* the files Check is called on: every document of at most MaxLines lines,
\* and a path that cannot be opened
Files == {File("", lines) : lines \in SeqsUpTo(Lines, MaxLines)} \cup {Unreadable}

\* the files and contexts the RAID Checker is called with
CheckerFiles == {File("", lines) : lines \in SeqsUpTo(Lines, MaxCheckerLines)} \cup {Unreadable}
CtxErrs == {"", Canceled, DeadlineExceeded}

\* Checker.Check of the RAID Checker is called, and RunAll builds its
\* Result (raid/check.go:32-48, check.go:43-52)
CallCheckerCheck(ctxErr, file, arrays) ==
  /\ call = NoCall
  /\ call' = [f |-> "Checker.Check", ctxErr |-> ctxErr, file |-> file, expected |-> arrays,
              checked |-> Check(file, arrays),
              out |-> CheckerCheck(ctxErr, file, arrays),
              result |-> ResultOf("raid", CheckerCheck(ctxErr, file, arrays))]
  /\ UNCHANGED pureFrame

\* one call per behaviour: nothing is enumerated once the call is made
NextPure ==
  /\ call = NoCall
  /\ \/ \E rs \in SeqsUpTo(ResultValues, MaxResults) : CallSummarizeFailures(rs)
     \/ \E file \in Files, expectedArrays \in ExpectedLists :
          CallCheck(file, expectedArrays)
     \/ \E ctxErr \in CtxErrs, file \in CheckerFiles, arrays \in ExpectedLists :
          CallCheckerCheck(ctxErr, file, arrays)

\* the functions on their own: neither the Lock nor the Runner takes a step
InitPure == Init /\ nchecks = NumCheckers

SpecPure == InitPure /\ [][NextPure]_vars

\* the branches of Acquire and Release left out of Next are never enabled
\* for the Runner
RunnerSkipsNothing ==
  /\ pc[Runner] = "acq_body" => ~holding
  /\ pc[Runner] = "rel_body" => ~NotHolding

\* =====================================================================
\* Package jellyfin: the Checker with a grace period
\* =====================================================================
\* the grace periods NewChecker is called with, in ticks
GracePeriods == {0, 2}
MaxSessions == 1

jellyfinFrame == <<lockVars, threadVars, cancelled, checkCtxErr, results, healthy, cycles, retval,
                   rcalls, atCancel, relAfter, histVars, nchecks, call, logs, sidecarVars, tx>>

\* NewChecker(client, gracePeriod) (client_test.go:415-420)
NewChecker(gracePeriod) ==
  /\ ~jellyfin.made
  /\ jellyfin' = [GracePeriod |-> gracePeriod, lastActiveTime |-> 0, made |-> TRUE]
  /\ UNCHANGED <<clock, sessions, jlast>>
  /\ UNCHANGED jellyfinFrame

\* time passes
Tick ==
  /\ clock < MaxTime
  /\ clock' = clock + 1
  /\ UNCHANGED <<jellyfin, sessions, jlast>>
  /\ UNCHANGED jellyfinFrame

\* a stream starts or ends on the server
SessionChange(n) ==
  /\ n # sessions
  /\ sessions' = n
  /\ UNCHANGED <<jellyfin, clock, jlast>>
  /\ UNCHANGED jellyfinFrame

\* Client.HasActiveStreams: the query fails, or it returns the active
\* sessions (client_test.go:333-339)
HasActiveStreams(ok) ==
  IF ok THEN [hasStreams |-> sessions > 0, n |-> sessions, err |-> ""]
  ELSE [hasStreams |-> FALSE, n |-> 0, err |-> "request failed"]

\* the error Check returns for the answer q of HasActiveStreams, "" for nil
\* (client_test.go:430-459)
JellyfinCheckErr(q) ==
  IF q.err # "" THEN ""
  ELSE IF q.hasStreams THEN "active stream(s)"
  ELSE IF /\ jellyfin.GracePeriod > 0
          /\ jellyfin.lastActiveTime # 0
          /\ clock - jellyfin.lastActiveTime < jellyfin.GracePeriod
       THEN "grace period"
       ELSE ""

\* mutant: the time of the last active stream is not recorded
LastActiveNeverSet(q) == jellyfin.lastActiveTime

\* what Check leaves in c.lastActiveTime (client_test.go:440-442)
LastActiveAfter(q) ==
  IF q.err = "" /\ q.hasStreams THEN clock ELSE jellyfin.lastActiveTime

\* Checker.Check(ctx) of the Jellyfin Checker (client_test.go:429-460)
JellyfinCheck(ok) ==
  /\ jellyfin.made
  /\ jellyfin' = [jellyfin EXCEPT !.lastActiveTime = LastActiveAfter(HasActiveStreams(ok))]
  /\ jlast' = [called |-> TRUE, at |-> clock, ok |-> ok, active |-> sessions > 0,
               seen |-> IF ok /\ sessions > 0 THEN clock
                        ELSE IF jlast.called THEN jlast.seen ELSE 0,
               before |-> IF jlast.called THEN jlast.seen ELSE 0,
               out |-> JellyfinCheckErr(HasActiveStreams(ok))]
  /\ UNCHANGED <<clock, sessions>>
  /\ UNCHANGED jellyfinFrame

NextJellyfin ==
  \/ \E g \in GracePeriods : NewChecker(g)
  \/ Tick
  \/ \E n \in 0..MaxSessions : SessionChange(n)
  \/ \E ok \in BOOLEAN : JellyfinCheck(ok)

InitJellyfin == Init /\ nchecks = NumCheckers
SpecJellyfin == InitJellyfin /\ [][NextJellyfin]_vars

\* =====================================================================
\* The inhibitor commands: raid-inhibitor and jellyfin-inhibitor
\* =====================================================================
\* the main goroutine of the command
Main == 1

sidecarFrame == <<cancelled, checkCtxErr, results, healthy, cycles, retval, rcalls, atCancel,
                  relAfter, histVars, nchecks, call, logs, jellyfinVars, tx>>

\* the main goroutine calls IsHolding, Acquire or Release and goes on at
\* label next
MainCall(o, r, next) ==
  /\ pc' = [pc EXCEPT ![Main] = Entry(o)]
  /\ op' = [op EXCEPT ![Main] = o]
  /\ arg' = [arg EXCEPT ![Main] = r]
  /\ ret' = [ret EXCEPT ![Main] = next]
  /\ UNCHANGED <<res, isH, ncalls>>

\* the call is recorded in the history of the running checkAndUpdate
Called(o, r) == [side EXCEPT !.calls = Append(@, [op |-> o, arg |-> r])]

\* the Lock when checkAndUpdate starts
LockAtStart ==
  [held |-> holding, cmd |-> cmd, nprocs |-> Len(procs),
   nkilled |-> Cardinality({p \in 1..Len(procs) : procs[p].killed})]

\* checkAndUpdate goes on at label next without a lock call
MainGoes(next) ==
  /\ pc' = [pc EXCEPT ![Main] = next]
  /\ UNCHANGED <<op, arg, ret, res, isH, ncalls>>
  /\ UNCHANGED sidecarVars
  /\ UNCHANGED sidecarFrame
  /\ UNCHANGED lockVars
  /\ UNCHANGED logs

\* ---------------------------------------------------- raid-inhibitor
\* -arrays md0 (raid-inhibitor/main.go:20-28)
expectedArrays == <<"md0">>

\* the status file at the time of a check: unreadable, md0 clean, md0
\* degraded, or without md0
MdstatFiles ==
  {Unreadable,
   File("", <<Line("md0", "raid1", <<>>, 0, 0, "", ""), Line("", "", <<"U", "U">>, 2, 2, "", "")>>),
   File("", <<Line("md0", "raid1", <<>>, 0, 0, "", ""), Line("", "", <<"U", "_">>, 2, 1, "", "")>>),
   File("", <<Line("md1", "raid1", <<>>, 0, 0, "", ""), Line("", "", <<"U", "U">>, 2, 2, "", "")>>)}

\* checkAndUpdate of raid-inhibitor: raid.Check, then the IsHolding call of
\* the branch taken (raid-inhibitor/main.go:57-62, 69-70, 76-77)
RaidCheckAndUpdate(file) ==
  /\ pc[Main] = "idle"
  /\ nupdates < MaxUpdates
  /\ nupdates' = nupdates + 1
  /\ side' = [called |-> TRUE, cmd |-> "raid-inhibitor", out |-> Check(file, expectedArrays),
              start |-> LockAtStart, calls |-> <<>>]
  /\ MainCall("IsHolding", "",
              IF Check(file, expectedArrays).err # "" THEN "ri_err"
              ELSE IF Check(file, expectedArrays).healthy THEN "ri_healthy"
              ELSE "ri_unhealthy")
  /\ UNCHANGED sidecarFrame
  /\ UNCHANGED lockVars
  /\ UNCHANGED logs

\* mutant: a check error leaves the lock alone
RaidErrIgnored ==
  /\ pc[Main] = "ri_err"
  /\ ~isH[Main]
  /\ MainGoes("idle")

\* check error, not holding: Acquire("RAID check error: ...")
\* (raid-inhibitor/main.go:62-66)
RaidErrAcquire ==
  /\ pc[Main] = "ri_err"
  /\ ~isH[Main]
  /\ MainCall("Acquire", "RAID check error: " \o side.out.err, "idle")
  /\ side' = Called("Acquire", "RAID check error: " \o side.out.err)
  /\ UNCHANGED nupdates
  /\ UNCHANGED sidecarFrame
  /\ UNCHANGED lockVars
  /\ UNCHANGED logs

\* check error, holding: return (raid-inhibitor/main.go:62, 66)
RaidErrStay ==
  /\ pc[Main] = "ri_err"
  /\ isH[Main]
  /\ MainGoes("idle")

\* healthy, holding: Release() (raid-inhibitor/main.go:69-72)
RaidHealthyRelease ==
  /\ pc[Main] = "ri_healthy"
  /\ isH[Main]
  /\ MainCall("Release", "", "idle")
  /\ side' = Called("Release", "")
  /\ UNCHANGED nupdates
  /\ UNCHANGED sidecarFrame
  /\ UNCHANGED lockVars
  /\ UNCHANGED logs

\* healthy, not holding (raid-inhibitor/main.go:70, 73-75)
RaidHealthyStay ==
  /\ pc[Main] = "ri_healthy"
  /\ ~isH[Main]
  /\ MainGoes("idle")

\* unhealthy, not holding: Acquire("RAID: " + reason)
\* (raid-inhibitor/main.go:76-79)
RaidUnhealthyAcquire ==
  /\ pc[Main] = "ri_unhealthy"
  /\ ~isH[Main]
  /\ MainCall("Acquire", "RAID: " \o side.out.reason, "idle")
  /\ side' = Called("Acquire", "RAID: " \o side.out.reason)
  /\ UNCHANGED nupdates
  /\ UNCHANGED sidecarFrame
  /\ UNCHANGED lockVars
  /\ UNCHANGED logs

\* unhealthy, holding (raid-inhibitor/main.go:77, 80-82)
RaidUnhealthyStay ==
  /\ pc[Main] = "ri_unhealthy"
  /\ isH[Main]
  /\ MainGoes("idle")

\* a signal arrives while the main loop waits in its select:
\* lock.Release(); os.Exit(0) (raid-inhibitor/main.go:49-52,
\* jellyfin-inhibitor main part_003:60-63)
MainSignal ==
  /\ pc[Main] = "idle"
  /\ MainCall("Release", "", "exited")
  /\ UNCHANGED sidecarVars
  /\ UNCHANGED sidecarFrame
  /\ UNCHANGED lockVars
  /\ UNCHANGED logs

\* the calls of the main goroutine into the Lock: Acquire is called only
\* after IsHolding() = false
MainLockStep ==
  \/ IsHolding(Main)
  \/ AcquireLock(Main) \/ AcquireStartOk(Main) \/ AcquireStartFail(Main) \/ AcquireSet(Main)
  \/ ReleaseLock(Main) \/ ReleaseIdle(Main) \/ ReleaseKillOk(Main) \/ ReleaseKillFail(Main)
  \/ ReleaseWait(Main)

NextRaidInhibitor ==
  \/ \E file \in MdstatFiles : RaidCheckAndUpdate(file)
  \/ RaidErrAcquire
  \/ RaidErrStay
  \/ RaidHealthyRelease
  \/ RaidHealthyStay
  \/ RaidUnhealthyAcquire
  \/ RaidUnhealthyStay
  \/ MainSignal
  \/ MainLockStep
  \/ \E p \in 1..Len(procs) : ProcDie(p)
  \/ \E p \in 1..Len(procs) : ProcExit(p)

InitSidecar == Init /\ nchecks = NumCheckers
SpecRaidInhibitor == InitSidecar /\ [][NextRaidInhibitor]_vars

\* ------------------------------------------------ jellyfin-inhibitor
\* s.Describe() of the active sessions, joined (part_003:80-87)
Desc(n) == IF n = 1 THEN "alice playing Movie" ELSE "streams"

\* mutant: a failed query is taken for "no active streams"
JellyfinCheckAndUpdateFailOpen(ok) ==
  /\ pc[Main] = "idle"
  /\ nupdates < MaxUpdates
  /\ nupdates' = nupdates + 1
  /\ side' = [called |-> TRUE, cmd |-> "jellyfin-inhibitor", out |-> HasActiveStreams(ok),
              start |-> LockAtStart, calls |-> <<>>]
  /\ MainCall("IsHolding", "", IF HasActiveStreams(ok).hasStreams THEN "ji_streams" ELSE "ji_none")
  /\ UNCHANGED sidecarFrame
  /\ UNCHANGED lockVars
  /\ UNCHANGED logs

\* checkAndUpdate of jellyfin-inhibitor: HasActiveStreams; return when it
\* fails, else the IsHolding call of the branch taken (part_003:68-79, 89, 96)
JellyfinCheckAndUpdate(ok) ==
  /\ pc[Main] = "idle"
  /\ nupdates < MaxUpdates
  /\ nupdates' = nupdates + 1
  /\ side' = [called |-> TRUE, cmd |-> "jellyfin-inhibitor", out |-> HasActiveStreams(ok),
              start |-> LockAtStart, calls |-> <<>>]
  /\ IF HasActiveStreams(ok).err # ""
     THEN UNCHANGED threadVars
     ELSE MainCall("IsHolding", "",
                   IF HasActiveStreams(ok).hasStreams THEN "ji_streams" ELSE "ji_none")
  /\ UNCHANGED sidecarFrame
  /\ UNCHANGED lockVars
  /\ UNCHANGED logs

\* active streams, not holding: Acquire(desc) (part_003:89-91)
JellyfinStreamsAcquire ==
  /\ pc[Main] = "ji_streams"
  /\ ~isH[Main]
  /\ MainCall("Acquire", Desc(side.out.n), "idle")
  /\ side' = Called("Acquire", Desc(side.out.n))
  /\ UNCHANGED nupdates
  /\ UNCHANGED sidecarFrame
  /\ UNCHANGED lockVars
  /\ UNCHANGED logs

\* active streams, holding (part_003:89, 92-94)
JellyfinStreamsStay ==
  /\ pc[Main] = "ji_streams"
  /\ isH[Main]
  /\ MainGoes("idle")

\* no active streams, holding: Release() (part_003:95-98)
JellyfinNoneRelease ==
  /\ pc[Main] = "ji_none"
  /\ isH[Main]
  /\ MainCall("Release", "", "idle")
  /\ side' = Called("Release", "")
  /\ UNCHANGED nupdates
  /\ UNCHANGED sidecarFrame
  /\ UNCHANGED lockVars
  /\ UNCHANGED logs

\* no active streams, not holding (part_003:96, 99-101)
JellyfinNoneStay ==
  /\ pc[Main] = "ji_none"
  /\ ~isH[Main]
  /\ MainGoes("idle")

NextJellyfinInhibitor ==
  \/ \E ok \in BOOLEAN : JellyfinCheckAndUpdate(ok)
  \/ JellyfinStreamsAcquire
  \/ JellyfinStreamsStay
  \/ JellyfinNoneRelease
  \/ JellyfinNoneStay
  \/ MainSignal
  \/ MainLockStep
  \/ \E n \in 0..MaxSessions : SessionChange(n)
  \/ \E p \in 1..Len(procs) : ProcDie(p)
  \/ \E p \in 1..Len(procs) : ProcExit(p)

SpecJellyfinInhibitor == InitSidecar /\ [][NextJellyfinInhibitor]_vars

\* =====================================================================
\* transmission-sidecar: transmissionChecker.Check (part_000)
\* =====================================================================
transmissionFrame == <<lockVars, threadVars, cancelled, checkCtxErr, results, healthy, cycles,
                       retval, rcalls, atCancel, relAfter, histVars, nchecks, call, logs,
                       jellyfinVars, sidecarVars>>

\* the contexts Check is called with: one that never ends, and one with a
\* deadline, which becomes "expired"
Contexts == {"background", "deadline"}

\* the values of the X-Transmission-Session-Id header of a 409 response;
\* "" is a response without the header
SessionIds == {"", "a", "b"}

\* a torrent of the response, PercentDone in hundredths
Torrent(n, p, s) == [Name |-> n, PercentDone |-> p, Status |-> s]

\* the bodies of a response that is not a 409: one that does not decode, no
\* torrent, a torrent downloading, complete, seeding, and two downloading
Bodies ==
  {[json |-> FALSE, torrents |-> <<>>],
   [json |-> TRUE, torrents |-> <<>>],
   [json |-> TRUE, torrents |-> <<Torrent("a", 50, 4)>>],
   [json |-> TRUE, torrents |-> <<Torrent("a", 100, 4)>>],
   [json |-> TRUE, torrents |-> <<Torrent("a", 50, 6)>>],
   [json |-> TRUE, torrents |-> <<Torrent("a", 50, 4), Torrent("b", 0, 4)>>]}

\* the downloading slice (part_000:80-87)
RECURSIVE Downloading(_)
Downloading(torrents) ==
  IF torrents = <<>> THEN <<>>
  ELSE LET t == Head(torrents)
       IN (IF t.Status = 4 /\ t.PercentDone < 100
           THEN <<t.Name \o " (" \o ToString(t.PercentDone) \o "%)">>
           ELSE <<>>) \o Downloading(Tail(torrents))

\* the return values of Check (part_000:56, 77, 90, 93)
TxOut(inhibit, reason) == [returned |-> TRUE, inhibit |-> inhibit, reason |-> reason, err |-> ""]

\* Check after a response that is not a 409 (part_000:66-93)
Decoded(body) ==
  IF ~body.json THEN TxOut(FALSE, "")
  ELSE IF Len(Downloading(body.torrents)) > 0
       THEN TxOut(TRUE, "downloading: " \o Join(Downloading(body.torrents), ", "))
  ELSE TxOut(FALSE, "")

\* the outermost frame returns to the caller: every frame of the recursion
\* returns the value of the frame below it (part_000:63)
TxReturns(out) == [tx EXCEPT !.pc = "idle", !.depth = 0, !.out = out]

\* the caller calls Check(ctx) (part_000:40)
TxCheck(ctx) ==
  /\ tx.pc = "idle"
  /\ tx.nchecks < MaxTxChecks
  /\ tx' = [tx EXCEPT !.pc = "do", !.ctx = ctx, !.depth = 1, !.nchecks = @ + 1, !.out = NoTxOut]
  /\ UNCHANGED transmissionFrame

\* the request is built with the stored session id and handed to client.Do
\* (part_000:43-53)
TxSend ==
  /\ tx.pc = "do"
  /\ tx' = [tx EXCEPT !.pc = "wait", !.sent = tx.sessionID]
  /\ UNCHANGED transmissionFrame

\* the deadline of the context passes while Check is running
TxExpire ==
  /\ tx.pc # "idle"
  /\ tx.ctx = "deadline"
  /\ tx' = [tx EXCEPT !.ctx = "expired"]
  /\ UNCHANGED transmissionFrame

\* client.Do fails: the server cannot be reached, the client's timeout or
\* the context's deadline has passed (part_000:54-57)
TxDoErr ==
  /\ tx.pc = "wait"
  /\ tx' = TxReturns(TxOut(FALSE, ""))
  /\ UNCHANGED transmissionFrame

\* the server answers 409 Conflict: the session id of the response is
\* stored and Check calls itself (part_000:61-64)
TxConflict(sid) ==
  /\ tx.pc = "wait"
  /\ tx.ctx # "expired"
  /\ tx' = [tx EXCEPT !.sessionID = sid,
                      !.pc = "do",
                      !.depth = IF @ < MaxDepth THEN @ + 1 ELSE MaxDepth]
  /\ UNCHANGED transmissionFrame

\* the server answers with another status: the body is decoded and the
\* verdict returned (part_000:66-93)
TxOK(body) ==
  /\ tx.pc = "wait"
  /\ tx.ctx # "expired"
  /\ tx' = TxReturns(Decoded(body))
  /\ UNCHANGED transmissionFrame

\* a step of client.Do: the request ends with a response or with an error
TxReply ==
  \/ TxDoErr
  \/ \E sid \in SessionIds : TxConflict(sid)
  \/ \E body \in Bodies : TxOK(body)

NextTransmission ==
  \/ \E ctx \in Contexts : TxCheck(ctx)
  \/ TxSend
  \/ TxExpire
  \/ TxDoErr
  \/ \E sid \in SessionIds : TxConflict(sid)
  \/ \E body \in Bodies : TxOK(body)

\* no Checker of package check is configured next to it
InitTransmission == Init /\ nchecks = 0

SpecTransmission == InitTransmission /\ [][NextTransmission]_vars

\* Check goes on to its next statement; a request ends, with a response or
\* with the error of the client's 10 s timeout (part_000:19); the deadline
\* of a context that has one arrives
SpecTransmissionLive ==
  /\ InitTransmission /\ [][NextTransmission]_vars
  /\ WF_vars(TxSend) /\ WF_vars(TxReply) /\ WF_vars(TxExpire)

\* =====================================================================
\* Properties
\* =====================================================================
\* the last two completed critical sections, in mutex order
Prev == oplog[Len(oplog) - 1]
Curr == oplog[Len(oplog)]
LastTwo(o1, o2) == Len(oplog) >= 2 /\ Prev.op = o1 /\ Curr.op = o2

\* thread t takes a step out of label l
Leaves(t, l) == pc[t] = l /\ pc'[t] # l

\* C1: under any interleaving of Acquire, Release, Update and IsHolding by
\* concurrent callers, at most one external process started by the Lock is
\* alive in every reachable state.
C1_AtMostOneProcess == Cardinality(Alive) <= 1

\* a second process runs after the first has gone, while one caller is
\* inside the critical section and another one waits for the mutex
C1_Witness ==
  /\ Len(procs) >= 2
  /\ Cardinality(Alive) = 1
  /\ \E t, u \in Clients : mu = t /\ u # t /\ pc[u] \in {"acq_lock", "rel_lock"}

\* C2: whenever Run has returned after the cancellation, the Lock is idle
\* and no external process started by it is running.
C2_ReturnedMeansReleased ==
  pc[Runner] = "returned" => (~holding /\ Alive = {})

\* C3: cancelled while the Lock is held and no poll cycle is running, Run
\* calls Release exactly once before it returns, and returns the context's
\* cancellation error.
C3_ReleaseOnceOnCancel ==
  (pc[Runner] = "returned" /\ atCancel.seen /\ atCancel.held /\ atCancel.pc = "select")
    => (relAfter = 1 /\ retval = Canceled)

C3_Witness ==
  /\ pc[Runner] = "returned"
  /\ atCancel.held
  /\ atCancel.pc = "select"
  /\ relAfter = 1
  /\ ~holding

\* C4: whenever IsHolding can report (the mutex is free), the lock is
\* reported held iff the external process it started is running, also
\* when the process exits without Release having been called.
C4_HeldIffRunning ==
  mu = 0 => (holding <=> (~cmd.nil /\ cmd.Process \in Alive))

\* C5 as stated: a Release that follows a successful Acquire always leaves
\* the Lock idle.
C5_ReleaseAlwaysIdle ==
  (LastTwo("Acquire", "Release") /\ Prev.res = "nil" /\ Prev.post) => ~Curr.post

\* C5 as amended: a Release that follows a successful Acquire and returns
\* success has killed the process and waited for it and leaves the Lock
\* idle; and whenever the Lock is idle outside a critical section, no
\* process it started is alive.
C5_ReleaseOkIdle ==
  /\ (LastTwo("Acquire", "Release") /\ Prev.res = "nil" /\ Prev.post /\ Curr.res = "nil")
       => (~Curr.post /\ Curr.kills = 1 /\ Curr.waits = 1)
  /\ (mu = 0 /\ ~holding) => Alive = {}

\* Release has just returned success after a successful Acquire, and the
\* process is gone
C5_Witness ==
  /\ LastTwo("Acquire", "Release")
  /\ Prev.res = "nil" /\ Prev.startoks = 1
  /\ Curr.res = "nil" /\ Curr.waits = 1
  /\ mu = 0 /\ ~holding /\ Alive = {}

\* C6: Acquire on a held Lock returns success, starts no process and
\* leaves the process and its reason unchanged; two consecutive Acquire
\* calls starting from idle start exactly one process.
C6_AcquireIdempotent ==
  /\ [][\A t \in Threads :
          (Leaves(t, "acq_body") /\ holding)
            => (procs' = procs /\ cmd' = cmd /\ holding' /\ res'[t] = "nil")]_vars
  /\ []((LastTwo("Acquire", "Acquire") /\ ~Prev.pre /\ Prev.res = "nil")
          => (Prev.startoks = 1 /\ Curr.starts = 0 /\ Curr.res = "nil" /\ Curr.post))

C6_Witness ==
  /\ LastTwo("Acquire", "Acquire")
  /\ ~Prev.pre /\ Prev.res = "nil" /\ Curr.pre
  /\ Len(procs) = 1 /\ Alive = {1}

\* C7 as stated: two consecutive Release calls on a held lock cause exactly
\* one process stop, the second call being a no-op.
C7_TwoReleasesOneStop ==
  (LastTwo("Release", "Release") /\ Prev.pre)
    => (Prev.kills + Curr.kills = 1 /\ Curr.kills = 0)

\* C7 as amended: Release on an idle Lock returns success and neither
\* stops nor starts a process; two consecutive Release calls on a held
\* lock, the first of which succeeds, cause exactly one stop, the second
\* call being a no-op.
C7_ReleaseIdempotent ==
  /\ [][\A t \in Threads :
          (Leaves(t, "rel_body") /\ ~holding)
            => (procs' = procs /\ cmd' = cmd /\ ~holding'
                /\ (op[t] = "Release" => res'[t] = "nil"))]_vars
  /\ []((LastTwo("Release", "Release") /\ Prev.pre /\ Prev.res = "nil")
          => (Prev.kills = 1 /\ Curr.kills = 0 /\ Curr.starts = 0
              /\ Curr.res = "nil" /\ ~Curr.post))

C7_Witness ==
  /\ LastTwo("Release", "Release")
  /\ Prev.pre /\ Prev.res = "nil" /\ Prev.kills = 1
  /\ ~Curr.pre /\ Curr.res = "nil"

\* C8: the Lock turns held only after the process start reported success;
\* a failed start returns an error, leaves the Lock idle after exactly one
\* start attempt; a following Release is a no-op and a following Acquire
\* attempts a fresh start.
C8_FailedStartStaysIdle ==
  /\ [][(~holding /\ holding')
          => (~cmd.nil /\ cmd.Process \in 1..Len(procs) /\ cmd' = cmd
              /\ \E t \in Threads : Leaves(t, "acq_set"))]_vars
  /\ [][\A t \in Threads :
          (Leaves(t, "acq_body") /\ ~holding /\ Len(procs') = Len(procs))
            => (res'[t] = "err" /\ ~holding' /\ mu' = 0
                /\ oplog'[Len(oplog')].starts = 1 /\ oplog'[Len(oplog')].startoks = 0)]_vars
  /\ []((LastTwo("Acquire", "Release") /\ Prev.res = "err")
          => (~Prev.post /\ Curr.kills = 0 /\ Curr.res = "nil" /\ ~Curr.post))
  /\ []((LastTwo("Acquire", "Acquire") /\ Prev.res = "err")
          => (~Prev.post /\ Prev.starts = 1 /\ Curr.starts = 1))

\* a failed Acquire is followed by an Acquire whose fresh start succeeds
C8_Witness ==
  /\ LastTwo("Acquire", "Acquire")
  /\ Prev.res = "err" /\ Prev.starts = 1
  /\ Curr.res = "nil" /\ Curr.startoks = 1
  /\ holding

\* C9: when stopping the process fails, Release returns an error and the
\* Lock is unchanged: still held, same process handle.
C9_FailedReleaseStaysHeld ==
  [][\A t \in Threads :
       (Leaves(t, "rel_body") /\ ~NotHolding /\ pc'[t] # "rel_wait")
         => (res'[t] = "err" /\ holding' /\ cmd' = cmd /\ procs' = procs /\ mu' = 0)]_vars

C9_Witness ==
  /\ Len(oplog) >= 1
  /\ Curr.op = "Release" /\ Curr.res = "err" /\ Curr.pre
  /\ mu = 0 /\ holding /\ cmd.Process \in Alive

\* the reason C10 expects: "name: reason" of every unhealthy result, in
\* result order, separated by "; "
UnhealthyOnly(rs) == SelectSeq(rs, LAMBDA r : ~r.Healthy)
RECURSIVE Listed(_)
Listed(fs) ==
  IF fs = <<>> THEN ""
  ELSE (IF Len(fs) > 1 THEN Listed(SubSeq(fs, 1, Len(fs) - 1)) \o "; " ELSE "")
       \o fs[Len(fs)].Name \o ": " \o fs[Len(fs)].Reason

\* C10: in a poll cycle whose verdict is unhealthy while the Lock is idle,
\* the Runner calls Acquire exactly once, with the summary of that cycle's
\* failing results as reason.
C10_AcquireWithSummary ==
  (pc[Runner] \in {"acq_lock", "acq_body", "acq_set", "select"} /\ ~healthy /\ ~isH[Runner])
    => (/\ rcalls = <<[op |-> "Acquire", arg |-> Listed(UnhealthyOnly(results))]>>
        /\ \A i \in 1..Len(results) : results[i].Name = Checks[i])

\* a cycle with two failing Checkers has acquired the lock
C10_Witness ==
  /\ pc[Runner] = "select"
  /\ ~healthy /\ ~isH[Runner]
  /\ Len(UnhealthyOnly(results)) = 2
  /\ Len(rcalls) = 1
  /\ holding /\ cmd.why = rcalls[1].arg

\* ------------------------------------------------------------------ C11
\* the poll cycle is over: runOnce has returned and Run is back at its select
CycleDone == pc[Runner] = "select"

ReleaseCall == [op |-> "Release", arg |-> ""]

\* C11 as stated: in a poll cycle in which every Checker reports healthy
\* while the Lock is held, the Runner issues exactly one Release call and
\* the Lock is idle at the end of the cycle.
C11_ReleaseOnceEndsIdle ==
  (CycleDone /\ healthy /\ isH[Runner])
    => (rcalls = <<ReleaseCall>> /\ ~holding)

\* C11 amended: in a poll cycle in which every Checker reports healthy while
\* the Lock is held, the Runner issues exactly one Release call; the Lock is
\* idle at the end of the cycle when that Release returned nil and is still
\* held, with its process, when that Release failed.
C11_ReleaseOnceIdleIfOk ==
  (CycleDone /\ healthy /\ isH[Runner])
    => (/\ rcalls = <<ReleaseCall>>
        /\ res[Runner] = "nil" => (~holding /\ cmd = NilCmd /\ Alive = {})
        /\ res[Runner] = "err" => (holding /\ cmd = cycleStart.cmd)
        /\ res[Runner] \in {"nil", "err"})

\* a healthy cycle that started with the lock held has released it
C11_Witness ==
  /\ CycleDone /\ healthy /\ isH[Runner]
  /\ cycleStart.cmd # NilCmd
  /\ \A i \in 1..Len(results) : results[i].Healthy
  /\ Len(results) = NumCheckers
  /\ rcalls = <<ReleaseCall>>
  /\ res[Runner] = "nil" /\ ~holding

\* ------------------------------------------------------------------ C12
\* processes the Lock has asked to stop
Killed == {p \in 1..Len(procs) : procs[p].killed}

\* the verdict of the cycle agrees with the lock state it observed
VerdictMatches == (~healthy /\ isH[Runner]) \/ (healthy /\ ~isH[Runner])

\* C12: in a poll cycle whose verdict matches the lock state (unhealthy
\* while held, healthy while idle) the Runner makes no Acquire and no Release
\* call, no process is started or stopped, and a held lock keeps the process
\* and the reason it had when the cycle began.
C12_NoCallWhenUnchanged ==
  (CycleDone /\ VerdictMatches)
    => (/\ rcalls = <<>>
        /\ Len(procs) = cycleStart.nprocs
        /\ Cardinality(Killed) = cycleStart.nkilled
        /\ cmd = cycleStart.cmd
        /\ holding = isH[Runner])

\* a second unhealthy cycle, failing for another reason than the cycle that
\* acquired the lock, has ended
C12_Witness ==
  /\ CycleDone /\ ~healthy /\ isH[Runner]
  /\ ~cycleStart.first
  /\ holding /\ cmd.Process \in Alive
  /\ UnhealthyOnly(results) # <<>>
  /\ cmd.why # SummarizeFailures(results)
  /\ rcalls = <<>>

\* ------------------------------------------------------------------ C13
\* RunAll went through the whole Checker list or stopped at a timeout result
PassOver(rs) ==
  \/ Len(rs) = Len(Checks)
  \/ rs # <<>> /\ rs[Len(rs)].Reason = "timeout"

AcquireCalls == {i \in 1..Len(rcalls) : rcalls[i].op = "Acquire"}

\* C13: when Run waits for the first interval tick, one complete poll cycle
\* is behind it: the Checkers were evaluated, the verdict was taken from
\* their results, and an unhealthy verdict has already led to the Acquire
\* call (the lock being idle at startup).
C13_CycleBeforeFirstTick ==
  (pc[Runner] = "select" /\ cycles = 0)
    => (/\ cycleStart.first
        /\ PassOver(results)
        /\ healthy = (\A i \in 1..Len(results) : results[i].Healthy)
        /\ ~healthy => (Cardinality(AcquireCalls) = 1 /\ Len(rcalls) = 1)
        /\ (~healthy /\ res[Runner] = "nil") => holding
        /\ healthy => (rcalls = <<>> /\ ~holding))

\* no tick has been processed and the lock of an unhealthy system is held
C13_Witness ==
  /\ pc[Runner] = "select" /\ cycles = 0
  /\ ~healthy /\ Len(invoked) = NumCheckers
  /\ holding /\ cmd.Process \in Alive

\* ------------------------------------------------------------------ C14
\* RunAll has returned its result list to runOnce
RunAllReturned == pc[Runner] = "manage"

\* C14 as stated: every Checker that would start after the shared deadline
\* has expired is left uninvoked and recorded as an unhealthy timeout
\* result, none being omitted: the list RunAll returns has exactly one entry
\* per Checker, in Checker order.
C14_OneResultPerChecker ==
  RunAllReturned
    => (/\ Len(results) = Len(Checks)
        /\ \A i \in 1..Len(results) : results[i].Name = Checks[i]
        /\ \A i \in 1..Len(results) :
             i > Len(invoked) => (~results[i].Healthy /\ results[i].Reason = "timeout"))

\* ------------------------------------------------------------------ C15
\* the lock call of the previous cycle failed and this cycle reaches the
\* same verdict
RetryDue ==
  /\ ~cycleStart.first
  /\ cycleStart.prevOp \in {"Acquire", "Release"}
  /\ cycleStart.prevRes = "err"
  /\ healthy = cycleStart.prevHealthy

\* C15: a failed Acquire or Release inside a poll cycle does not end Run,
\* which returns only once its context is cancelled; the failure leaves the
\* lock as it was, and the next cycle with the same verdict issues the same
\* lock call again.
C15_FailedCallIsRetried ==
  /\ pc[Runner] \in {"shut_rel", "shut_ret", "returned"} => cancelled
  /\ (CycleDone /\ rcalls # <<>> /\ res[Runner] = "err")
       => (/\ holding = isH[Runner]
           /\ holding => cmd = cycleStart.cmd
           /\ Len(procs) = cycleStart.nprocs
           /\ Cardinality(Killed) = cycleStart.nkilled)
  /\ (CycleDone /\ RetryDue)
       => (Len(rcalls) = 1 /\ rcalls[1].op = cycleStart.prevOp)

\* a Release that failed in one cycle has been issued again in the next
C15_Witness ==
  /\ CycleDone /\ RetryDue /\ ~cancelled
  /\ cycleStart.prevOp = "Release"
  /\ rcalls = <<ReleaseCall>>
  /\ res[Runner] = "nil" /\ ~holding

\* an Acquire that failed in one cycle has been issued again in the next
C15_WitnessAcquire ==
  /\ CycleDone /\ RetryDue /\ ~cancelled
  /\ cycleStart.prevOp = "Acquire"
  /\ Len(rcalls) = 1 /\ rcalls[1].op = "Acquire"
  /\ holding

\* ------------------------------------------------------------------ C16
\* runOnce has computed healthy from the results of the cycle
VerdictTaken == pc[Runner] \notin {"run", "runall", "checking", "manage"}

\* C16: the verdict AllHealthy(results) is true iff every result of the
\* list is healthy; it is true for the empty list, so a Runner with no
\* Checkers never calls Acquire, never starts a process and never holds the
\* lock.
C16_HealthyIffEveryResult ==
  /\ VerdictTaken => (healthy <=> \A i \in 1..Len(results) : results[i].Healthy)
  /\ (VerdictTaken /\ results = <<>>) => healthy
  /\ nchecks = 0 => (/\ results = <<>>
                     /\ AcquireCalls = {}
                     /\ procs = <<>>
                     /\ ~holding)

\* a Runner with no Checkers has gone through all its cycles with the lock idle
C16_Witness ==
  /\ nchecks = 0
  /\ CycleDone /\ cycles = MaxCycles
  /\ results = <<>> /\ healthy
  /\ procs = <<>> /\ ~holding

\* ------------------------------------------------------------------ C17
\* C17: SummarizeFailures returns the "name: reason" entries of exactly the
\* unhealthy results, in list order, joined with "; ", and "all checks
\* passed" when no result is unhealthy, the empty list included.
C17_SummaryOfUnhealthy ==
  call.f = "SummarizeFailures"
    => call.out = (IF UnhealthyOnly(call.in) = <<>> THEN "all checks passed"
                   ELSE Listed(UnhealthyOnly(call.in)))

\* a healthy result that carries a reason stands between two unhealthy ones
C17_Witness ==
  /\ call.f = "SummarizeFailures"
  /\ Len(call.in) = 3
  /\ ~call.in[1].Healthy /\ ~call.in[3].Healthy
  /\ call.in[2].Healthy /\ call.in[2].Reason # ""
  /\ call.in[1].Name = call.in[3].Name
  /\ call.out = call.in[1].Name \o ": " \o call.in[1].Reason \o "; "
                  \o call.in[3].Name \o ": " \o call.in[3].Reason

\* ------------------------------------------------------------------ C18
\* C18: for every Checker that RunAll invokes, the result carries that
\* Checker's name, is healthy iff Check returned nil, has an empty reason
\* and no error when healthy, and has the returned error and its text as
\* reason when unhealthy.
C18_ResultOfInvokedChecker ==
  \A i \in 1..Len(invoked) :
    /\ i <= Len(results)
    /\ invoked[i].name = Checks[i]
    /\ results[i].Name = invoked[i].name
    /\ results[i].Healthy <=> invoked[i].err = ""
    /\ results[i].Healthy => (results[i].Reason = "" /\ results[i].Err = "")
    /\ ~results[i].Healthy => (/\ results[i].Err = invoked[i].err
                              /\ results[i].Reason = invoked[i].err)

\* RunAll has returned the results of a Check that passed and one that failed
C18_Witness ==
  /\ RunAllReturned
  /\ Len(invoked) = 2 /\ Len(results) = 2
  /\ invoked[1].err = "" /\ results[1].Healthy
  /\ invoked[2].err = "no route" /\ results[2].Reason = "no route"

\* ------------------------------------------------------------------ C19
\* C19: within a poll cycle the Checkers are evaluated one at a time in list
\* order: at most one Check call is in progress, it is the call of the
\* Checker that follows the ones that have returned, and the calls made so
\* far are those of the first Checkers of the list, in list order.
C19_OneCheckAtATime ==
  /\ Cardinality(inflight) <= 1
  /\ \A i \in inflight : (/\ pc[Runner] = "checking"
                          /\ i \in 1..Len(Checks)
                          /\ Len(invoked) = i - 1
                          /\ Len(results) = i - 1)
  /\ pc[Runner] = "checking" => inflight # {}
  /\ \A i \in 1..Len(invoked) : invoked[i].name = Checks[i]

\* the Check call of the second Checker is in progress, the first has returned
C19_Witness ==
  /\ pc[Runner] = "checking"
  /\ inflight = {2}
  /\ Len(invoked) = 1 /\ invoked[1].name = Checks[1]
  /\ cycles = 1

\* ------------------------------------------------------------------ C20
\* the names of the records, in document order, separated by ", "
RECURSIVE ListedNames(_)
ListedNames(sts) ==
  IF sts = <<>> THEN ""
  ELSE (IF Len(sts) > 1 THEN ListedNames(SubSeq(sts, 1, Len(sts) - 1)) \o ", " ELSE "")
       \o sts[Len(sts)].Name

\* the records that carry an expected name
Matching(sts, name) == {i \in 1..Len(sts) : sts[i].Name = name}

\* raid.Check was called on a readable document
CheckCalled == call.f = "Check" /\ call.file.err = ""

\* C20 as stated: raid.Check on a readable document returns healthy iff the
\* document yields at least one array record and every name of the expected
\* list matches a parsed record that is healthy and not rebuilding; when
\* healthy, the reason lists the names of all parsed arrays.
C20_HealthyIffSomeRecord ==
  CheckCalled =>
    /\ call.out.healthy <=>
         (/\ call.statuses # <<>>
          /\ \A k \in 1..Len(call.expected) :
               \E i \in Matching(call.statuses, call.expected[k]) :
                 call.statuses[i].Healthy /\ ~call.statuses[i].Rebuilding)
    /\ call.out.healthy => call.out.reason = "all healthy: " \o ListedNames(call.statuses)

\* each array name heads one record, and a record's slot line comes before
\* its recovery line, as in the documents the kernel writes
KernelOrder(sts) ==
  /\ \A i, j \in 1..Len(sts) : sts[i].Name = sts[j].Name => i = j
  /\ \A i \in 1..Len(sts) : sts[i].Rebuilding => ~sts[i].Healthy

\* C20 amended: raid.Check on a readable document returns healthy iff the
\* document yields at least one array record, every name of the expected
\* list matches at least one parsed record, and every parsed record with
\* such a name has its healthy flag set; when every array name heads one
\* record and no record is flagged healthy while rebuilding, that is: every
\* expected name matches a record that is healthy and not rebuilding. When
\* healthy, the reason is "all healthy: " and the names of all parsed
\* records, in document order, separated by ", ".
C20_HealthyIffEveryRecord ==
  CheckCalled =>
    /\ call.out.healthy <=>
         (/\ call.statuses # <<>>
          /\ \A k \in 1..Len(call.expected) :
               /\ Matching(call.statuses, call.expected[k]) # {}
               /\ \A i \in Matching(call.statuses, call.expected[k]) : call.statuses[i].Healthy)
    /\ KernelOrder(call.statuses) =>
         (call.out.healthy <=>
            (/\ call.statuses # <<>>
             /\ \A k \in 1..Len(call.expected) :
                  \E i \in Matching(call.statuses, call.expected[k]) :
                    call.statuses[i].Healthy /\ ~call.statuses[i].Rebuilding))
    /\ call.out.healthy => call.out.reason = "all healthy: " \o ListedNames(call.statuses)

\* Check found the one expected array healthy in a document of two arrays,
\* the other one degraded, and names both in its reason
C20_Witness ==
  /\ CheckCalled
  /\ call.expected = <<"md0">>
  /\ Len(call.statuses) = 2
  /\ call.statuses[1].Name = "md0" /\ call.statuses[1].Healthy
  /\ call.statuses[2].Name = "md1" /\ ~call.statuses[2].Healthy
  /\ call.out.healthy
  /\ call.out.reason = "all healthy: md0, md1"

\* ------------------------------------------------------------------ C21
NotFoundReason(name) == "expected array " \o name \o " not found"
SaysNotFound(reason) == \E n \in ArrayNames : reason = NotFoundReason(n)

\* positions of the expected list whose name heads no parsed record
Missing(sts, exp) == {k \in 1..Len(exp) : Matching(sts, exp[k]) = {}}

\* positions of the expected list whose array fails: no record, or a
\* record whose healthy flag is not set
Failing(sts, exp) ==
  {k \in 1..Len(exp) :
     \/ Matching(sts, exp[k]) = {}
     \/ \E i \in Matching(sts, exp[k]) : ~sts[i].Healthy}

Lowest(S) == CHOOSE k \in S : \A h \in S : k <= h

\* C21 as stated, for the documents that yield a record (the others have a
\* reason of their own): raid.Check returns unhealthy with a "not found"
\* reason iff at least one expected name has no parsed record with that
\* name, and the reason names the first such missing name in list order.
C21_NotFoundIffMissing ==
  (CheckCalled /\ call.statuses # <<>>) =>
    /\ (~call.out.healthy /\ SaysNotFound(call.out.reason))
         <=> Missing(call.statuses, call.expected) # {}
    /\ Missing(call.statuses, call.expected) # {}
         => call.out.reason =
              NotFoundReason(call.expected[Lowest(Missing(call.statuses, call.expected))])

\* C21 amended: raid.Check returns unhealthy with a "not found" reason iff
\* the document yields at least one record and the first expected name, in
\* list order, whose array fails (no record, or a record that is not
\* healthy) has no record; the reason names that name, which is then the
\* first missing name of the list.
C21_NotFoundIffFirstFailureMissing ==
  CheckCalled =>
    LET miss == Missing(call.statuses, call.expected)
        fail == Failing(call.statuses, call.expected)
        first == Lowest(fail)
    IN /\ (~call.out.healthy /\ SaysNotFound(call.out.reason))
            <=> (call.statuses # <<>> /\ fail # {} /\ first \in miss)
       /\ SaysNotFound(call.out.reason)
            => (/\ first = Lowest(miss)
                /\ call.out.reason = NotFoundReason(call.expected[first]))

\* the document has a healthy md0 and no md1: the reason names md1
C21_Witness ==
  /\ CheckCalled
  /\ call.expected = <<"md0", "md1">>
  /\ Len(call.statuses) = 1 /\ call.statuses[1].Name = "md0" /\ call.statuses[1].Healthy
  /\ ~call.out.healthy
  /\ call.out.reason = "expected array md1 not found"

\* ------------------------------------------------------------------ C22
\* the reason of one failing array: its name is missing, or its first
\* record that is not healthy is rebuilding or degraded
ReasonOf(sts, name) ==
  IF Matching(sts, name) = {} THEN NotFoundReason(name)
  ELSE LET i == Lowest({j \in Matching(sts, name) : ~sts[j].Healthy})
       IN IF sts[i].Rebuilding THEN name \o " rebuilding: " \o sts[i].Progress
          ELSE name \o " degraded: " \o sts[i].DeviceList

\* C22: raid.Check walks the expected names in list order and stops at the
\* first expected array that fails (missing, rebuilding or degraded): the
\* one reason returned is that array's, and the expected names after it
\* have no influence on the result.
C22_FirstFailureWins ==
  (CheckCalled /\ call.statuses # <<>>) =>
    LET fail == Failing(call.statuses, call.expected)
    IN /\ call.out.healthy <=> fail = {}
       /\ fail # {} =>
            /\ call.out.reason = ReasonOf(call.statuses, call.expected[Lowest(fail)])
            /\ call.out = Check(call.file, SubSeq(call.expected, 1, Lowest(fail)))

\* md1 is rebuilding and md0 degraded; md1 comes first in the expected
\* list and second in the document
C22_Witness ==
  /\ CheckCalled
  /\ call.expected = <<"md1", "md0">>
  /\ Len(call.statuses) = 2
  /\ call.statuses[1].Name = "md0" /\ ~call.statuses[1].Healthy /\ ~call.statuses[1].Rebuilding
  /\ call.statuses[2].Name = "md1" /\ call.statuses[2].Rebuilding
  /\ ~call.out.healthy
  /\ call.out.reason = "md1 rebuilding: 17.5%"

\* ------------------------------------------------------------------ C23
\* the header lines of a document, and the line that heads its r-th record
Heads(lines) == {i \in 1..Len(lines) : lines[i].array # ""}
HeadOf(lines, r) ==
  LET H == Heads(lines)
  IN CHOOSE i \in H : Cardinality({h \in H : h <= i}) = r

\* the lines of the r-th record below its header
Body(lines, r) ==
  LET H == Heads(lines)
      first == HeadOf(lines, r)
  IN {i \in (first + 1)..Len(lines) : \A h \in H : h > first => i < h}

RecoveryLines(lines, r) == {i \in Body(lines, r) : lines[i].pct # ""}
SlotLines(lines, r) == {i \in Body(lines, r) : lines[i].bitmap # <<>>}
Highest(S) == CHOOSE k \in S : \A h \in S : h <= k

\* a slot line without a missing-slot marker stands below the last recovery
\* line of the record, and no other slot line stands below it
CleanSlotLast(lines, r) ==
  /\ SlotLines(lines, r) # {}
  /\ ~Contains(lines[Highest(SlotLines(lines, r))].bitmap, "_")
  /\ \A i \in RecoveryLines(lines, r) : i < Highest(SlotLines(lines, r))

RebuildingReason(st) == st.Name \o " rebuilding: " \o st.Progress

\* C23 as stated: a record in which a recovery progress line was seen has,
\* whatever slot-status line it also contains, Rebuilding = true and
\* Healthy = false, and raid.Check on an expected array with such a record
\* returns unhealthy with a reason made of the array name and the progress.
C23_RecoveryMeansUnhealthy ==
  CheckCalled =>
    \A r \in 1..Len(call.statuses) :
      RecoveryLines(call.in, r) # {} =>
        /\ call.statuses[r].Rebuilding /\ ~call.statuses[r].Healthy
        /\ (\E k \in 1..Len(call.expected) : call.expected[k] = call.statuses[r].Name)
             => (~call.out.healthy /\ call.out.reason = RebuildingReason(call.statuses[r]))

\* C23 amended: a record in which a recovery progress line was seen has
\* Rebuilding = true and the progress of that line; it has Healthy = false
\* whatever slot line stands above the recovery line or on it, but a clean
\* slot line below the recovery line sets Healthy back to true. raid.Check
\* on an expected list that names a record with Rebuilding = true and
\* Healthy = false returns unhealthy, and its reason is made of the array
\* name and the progress when that record is the first unhealthy record of
\* the first failing expected array.
C23_RecoveryOverridesEarlierSlot ==
  CheckCalled =>
    \A r \in 1..Len(call.statuses) :
      RecoveryLines(call.in, r) # {} =>
        LET st == call.statuses[r]
            fail == Failing(call.statuses, call.expected)
        IN /\ st.Rebuilding /\ st.Progress = call.in[Highest(RecoveryLines(call.in, r))].pct
           /\ st.Healthy <=> CleanSlotLast(call.in, r)
           /\ (~st.Healthy /\ \E k \in 1..Len(call.expected) : call.expected[k] = st.Name)
                => ~call.out.healthy
           /\ (/\ ~st.Healthy
               /\ fail # {}
               /\ call.expected[Lowest(fail)] = st.Name
               /\ \A j \in Matching(call.statuses, st.Name) : j < r => call.statuses[j].Healthy)
                => call.out.reason = RebuildingReason(st)

\* a clean slot line above a recovery line: the record is rebuilding and
\* unhealthy and Check reports the progress
C23_Witness ==
  /\ CheckCalled
  /\ call.expected = <<"md0">>
  /\ Len(call.in) = 3
  /\ call.in[1].array = "md0"
  /\ call.in[2].bitmap = <<"U", "U">> /\ call.in[2].pct = ""
  /\ call.in[3].pct = "17.5%" /\ call.in[3].bitmap = <<>>
  /\ call.statuses[1].Rebuilding /\ ~call.statuses[1].Healthy
  /\ call.statuses[1].DeviceList = "[UU]"
  /\ ~call.out.healthy /\ call.out.reason = "md0 rebuilding: 17.5%"

\* ------------------------------------------------------------------ C24
\* A document as the kernel writes it: every slot and recovery line belongs
\* to a record, an array name heads one record, a raid1 record has one slot
\* line, a raid0 record has none (its blocks line carries no slot marker),
\* and recovery lines stand below the slot line of their record.
WellFormed(lines) ==
  /\ \A i \in 1..Len(lines) :
       (lines[i].bitmap # <<>> \/ lines[i].pct # "" \/ lines[i].resync # "")
         => \E h \in Heads(lines) : h < i
  /\ \A h, g \in Heads(lines) : lines[h].array = lines[g].array => h = g
  /\ \A r \in 1..Cardinality(Heads(lines)) :
       /\ Cardinality(SlotLines(lines, r)) =
            (IF lines[HeadOf(lines, r)].level = "raid0" THEN 0 ELSE 1)
       /\ \A i \in RecoveryLines(lines, r) : \A j \in SlotLines(lines, r) : j < i

\* the marker string of the record's slot line has a missing-slot marker
MissingSlot(lines, r) == \E i \in SlotLines(lines, r) : Contains(lines[i].bitmap, "_")

\* C24: for all well-formed status documents, every record returned by
\* ParseMdstat has Healthy false iff its DeviceList contains a missing-slot
\* marker '_' or its Rebuilding flag is true.
C24_UnhealthyIffMissingOrRebuilding ==
  (CheckCalled /\ WellFormed(call.in)) =>
    \A r \in 1..Len(call.statuses) :
      ~call.statuses[r].Healthy
        <=> (MissingSlot(call.in, r) \/ call.statuses[r].Rebuilding)

\* ------------------------------------------------------------------ C25
ResyncLines(lines, r) == {i \in Body(lines, r) : lines[i].resync # ""}

\* C25: a parsed array record has Rebuilding = true iff its record contains
\* a recovery or a resync progress marker, and raid.Check never returns
\* healthy when an expected array is resyncing.
C25_RebuildingIffRecoveryOrResync ==
  CheckCalled =>
    \A r \in 1..Len(call.statuses) :
      /\ call.statuses[r].Rebuilding
           <=> (RecoveryLines(call.in, r) # {} \/ ResyncLines(call.in, r) # {})
      /\ (/\ ResyncLines(call.in, r) # {}
          /\ \E k \in 1..Len(call.expected) : call.expected[k] = call.statuses[r].Name)
           => ~call.out.healthy

\* C26: when a readable document yields no array record, raid.Check returns
\* unhealthy with the reason "no RAID arrays found" and a nil error, whatever
\* the expected list is, and never an "expected array ... not found" reason
C26_NoArraysFound ==
  (CheckCalled /\ call.statuses = <<>>)
    => /\ call.out = [healthy |-> FALSE, reason |-> "no RAID arrays found", err |-> ""]
       /\ ~SaysNotFound(call.out.reason)

\* a document of lines none of which is a header, checked against md0
C26_Witness ==
  /\ CheckCalled
  /\ call.statuses = <<>>
  /\ call.in # <<>>
  /\ call.expected = <<"md0">>
  /\ call.out.reason = "no RAID arrays found"

\* the document without the lines of its r-th record
RECURSIVE Dropping(_, _, _)
Dropping(lines, drop, i) ==
  IF i > Len(lines) THEN <<>>
  ELSE (IF i \in drop THEN <<>> ELSE <<lines[i]>>) \o Dropping(lines, drop, i + 1)
Without(lines, r) == Dropping(lines, {HeadOf(lines, r)} \cup Body(lines, r), 1)

\* the verdict of Check: healthy or not, and the reason when unhealthy
Verdict(out) == <<out.healthy, IF out.healthy THEN "" ELSE out.reason>>

\* C27: an array that is in the document but not in the expected list never
\* makes raid.Check unhealthy, whatever its state: the verdict on a document
\* with such a record, and the reason of an unhealthy verdict, are those on
\* the document without it, provided that one has at least one record
C27_UnexpectedArrayIgnored ==
  CheckCalled
    => \A r \in 1..Len(call.statuses) :
         (/\ Len(call.statuses) > 1
          /\ \A k \in 1..Len(call.expected) : call.expected[k] # call.statuses[r].Name)
           => Verdict(Check(File("", Without(call.in, r)), call.expected)) = Verdict(call.out)

\* md0 is expected and clean, and the document also has a degraded md1 that
\* is not expected: the check is healthy
C27_Witness ==
  /\ CheckCalled
  /\ call.expected = <<"md0">>
  /\ \E r \in 1..Len(call.statuses) :
       call.statuses[r].Name = "md1" /\ ~call.statuses[r].Healthy
  /\ call.out.healthy

\* C28: when the status document cannot be read, raid.Check returns a
\* non-nil error with healthy = false, the RAID Checker returns a non-nil
\* error from Check, and the Result RunAll builds from it is unhealthy, so
\* the results of the cycle are not all healthy
C28_UnreadableIsUnhealthy ==
  /\ (call.f = "Check" /\ call.file.err # "")
       => call.out.err # "" /\ ~call.out.healthy
  /\ (call.f = "Checker.Check" /\ call.file.err # "")
       => /\ call.checked.err # "" /\ ~call.checked.healthy
          /\ call.out # ""
          /\ ~call.result.Healthy /\ call.result.Err # ""
          /\ ~AllHealthy(<<call.result>>)

\* the RAID Checker, its context live, on a path that cannot be opened
C28_Witness ==
  /\ call.f = "Checker.Check"
  /\ call.ctxErr = ""
  /\ call.file = Unreadable
  /\ call.out = "raid check failed: failed to read mdstat: " \o OpenErr
  /\ call.result = [Name |-> "raid", Healthy |-> FALSE, Reason |-> call.out, Err |-> call.out]

\* thread t, inside Update, ends the Release step
EndsRelease(t) == op[t] = "Update" /\ pc[t] \in {"rel_body", "rel_wait"} /\ pc'[t] \notin {"rel_body", "rel_wait"}

\* C29: Update(reason) on a held Lock is Release followed by Acquire. The
\* Release step stops the current process and waits for its exit, and when
\* it returns the Lock is idle and Update goes on to Acquire; the Lock is
\* idle between the two steps (as long as no other caller's critical section
\* has come after the Release step), and a process Update starts carries the new
\* reason and starts when no earlier process is alive. Update on an idle
\* Lock goes to Acquire without a Release step. If the Release step fails,
\* Update returns the error to its caller, no process is started and the
\* Lock stays held with the same process and reason.
C29_UpdateIsReleaseThenAcquire ==
  /\ [][\A t \in Clients :
          /\ Leaves(t, "upd")
               => /\ pc'[t] = (IF holding THEN "rel_lock" ELSE "acq_lock")
                  /\ holding' = holding /\ cmd' = cmd /\ procs' = procs
          /\ (EndsRelease(t) /\ pc'[t] = "acq_lock")
               => /\ ~holding' /\ Alive' = {} /\ mu' = 0
                  /\ Len(procs') = Len(procs)
                  /\ (pc[t] = "rel_wait" => (cur[t].kills = 1 /\ ~procs[cmd.Process].alive))
          /\ (EndsRelease(t) /\ pc'[t] # "acq_lock")
               => /\ pc[t] = "rel_body" /\ pc'[t] = ret[t] /\ res'[t] = "err"
                  /\ holding /\ holding' /\ cmd' = cmd /\ procs' = procs
          /\ (op[t] = "Update" /\ Leaves(t, "acq_body") /\ Len(procs') > Len(procs))
               => /\ ~holding /\ Alive = {}
                  /\ procs'[Len(procs')].why = WhyOf(arg[t])
                  /\ cmd'.why = WhyOf(arg[t])]_vars
  /\ [](\A t \in Clients :
          (op[t] = "Update" /\ pc[t] = "acq_lock" /\ mu = 0 /\ Len(oplog) >= 1
             /\ Curr.op = "Release" /\ Curr.res = "nil")
            => (~holding /\ Alive = {}))

\* Update with a new reason on a held Lock: the Release step has stopped
\* the old process and waited for it, and the Acquire step has started the
\* process with the new reason
C29_Witness ==
  \E t \in Clients :
    /\ op[t] = "Update" /\ arg[t] = "manual" /\ pc[t] = "acq_set"
    /\ Len(oplog) >= 1 /\ Curr.op = "Release" /\ Curr.pre /\ Curr.kills = 1 /\ Curr.waits = 1
    /\ Len(procs) = 2 /\ Alive = {2}
    /\ procs[2].why = "manual" /\ procs[1] = Reaped

\* the Release step of Update has failed: Update has returned the error
\* and the Lock is held with the process it held before
C29_WitnessFailedRelease ==
  \E t \in Clients :
    /\ pc[t] = "idle" /\ res[t] = "err"
    /\ Len(oplog) = 2 /\ Prev.op = "Acquire" /\ Curr.op = "Release" /\ Curr.res = "err"
    /\ ncalls = 2 /\ holding /\ Len(procs) = 1

\* the processes a Release has stopped and that have not exited yet
TearingDown == {p \in 1..Len(procs) : procs[p].killed /\ procs[p].alive}

\* C30: with Acquire and Release called concurrently on one Lock, a process
\* is started only when every process a Release has stopped has exited and
\* has been waited for, and while a stopped process is still exiting no
\* other process of the Lock is alive: the teardown of the old process and
\* the start of the new one never overlap
C30_StartAfterTeardown ==
  /\ [][Len(procs') > Len(procs)
          => /\ TearingDown = {}
             /\ \A p \in 1..Len(procs) : procs[p].killed => procs[p] = Reaped]_vars
  /\ [](\A p \in TearingDown : Alive = {p} /\ cmd.Process = p /\ pc[mu] = "rel_wait")

\* one caller's Release has stopped the first process and waited for it,
\* and another caller's Acquire, next into the critical section, has
\* started the second one
C30_Witness ==
  \E t, u \in Clients :
    /\ t # u
    /\ pc[t] = "idle" /\ res[t] = "nil"
    /\ op[u] = "Acquire" /\ pc[u] = "acq_set" /\ cur[u].startoks = 1
    /\ Len(oplog) >= 1 /\ Curr.op = "Release" /\ Curr.kills = 1 /\ Curr.waits = 1
    /\ Len(procs) = 2 /\ procs[1] = Reaped /\ Alive = {2}

\* ------------------------------------------------------------------ C31
\* the result lines logged for the Checker called name, and the lines
\* logged about the lock
ResultLines(name) == {j \in 1..Len(logs) : logs[j].kind = "result" /\ logs[j].name = name}
LockLines == {j \in 1..Len(logs) : logs[j].kind # "result"}

\* the lock call the Runner made in the cycle or shutdown that is over
\* succeeded, so the lock changed state
Transition(o) ==
  /\ Len(rcalls) = 1 /\ rcalls[1].op = o
  /\ res[Runner] = "nil"

\* C31 as stated: in every poll cycle the Runner logs exactly one line per
\* configured Checker, and every lock-state transition it makes (acquire or
\* release in a cycle, release on cancellation) comes with exactly one log
\* line.
C31_OneLinePerCheckerAndTransition ==
  /\ CycleDone
       => /\ \A i \in 1..Len(Checks) : Cardinality(ResultLines(Checks[i])) = 1
          /\ (Transition("Acquire") \/ Transition("Release")) => Cardinality(LockLines) = 1
  /\ (pc[Runner] = "returned" /\ Transition("Release")) => Cardinality(LockLines) = 1

\* ------------------------------------------------------------------ C32
\* the last Check call of the Jellyfin Checker was made less than
\* GracePeriod after the last earlier call that observed active streams
InGrace == jlast.before # 0 /\ jlast.at - jlast.before < jellyfin.GracePeriod

\* C32 as stated: Check returns an error on every call made while streams
\* are active or less than GracePeriod after the last call that observed
\* active streams, and nil when there are no active streams and the grace
\* period has elapsed or no stream was ever observed.
C32_ErrorIffActiveOrGrace ==
  jlast.called => (jlast.out # "" <=> (jlast.active \/ InGrace))

\* C32 amended: a Check call whose query succeeds returns an error iff
\* streams are active or the call is made less than GracePeriod after the
\* last call that observed active streams (never, with GracePeriod = 0, once
\* the streams have ended); a call whose query fails returns nil, whatever
\* the streams and the grace period are, and leaves the time of the last
\* observation as it was. c.lastActiveTime is the time of the last call that
\* observed active streams.
C32_ErrorIffObservedActiveOrGrace ==
  /\ jlast.called
       => /\ jlast.ok => (jlast.out # "" <=> (jlast.active \/ InGrace))
          /\ (jlast.ok /\ jellyfin.GracePeriod = 0) => (jlast.out # "" <=> jlast.active)
          /\ ~jlast.ok => (jlast.out = "" /\ jlast.seen = jlast.before)
          /\ jellyfin.lastActiveTime = jlast.seen
  /\ ~jlast.called => jellyfin.lastActiveTime = 0

\* a call in the grace window: no stream is active, the query succeeded, a
\* call one tick earlier observed a stream, and Check returns the grace error
C32_Witness ==
  /\ jlast.called /\ jlast.ok /\ ~jlast.active
  /\ jellyfin.GracePeriod = 2
  /\ jlast.before # 0 /\ jlast.at - jlast.before = 1
  /\ jlast.out = "grace period"

\* ------------------------------------------------------------------ C33
\* the aggregate verdict of the results of the cycle is unhealthy
SomeUnhealthy == \E i \in 1..Len(results) : ~results[i].Healthy

\* the Runner made no lock call in the cycle, or the one it made succeeded
NoFailedCall == rcalls = <<>> \/ (Len(rcalls) = 1 /\ res[Runner] = "nil")

\* C33: at the end of every poll cycle in which the lock call made (if any)
\* succeeded, the Lock is held iff the aggregate verdict of the cycle was
\* unhealthy, whatever cycles (healthy, unhealthy, timed out) came before
C33_HeldIffUnhealthy ==
  (CycleDone /\ NoFailedCall) => (holding <=> SomeUnhealthy)

\* the third cycle ends: the Lock was taken in an unhealthy cycle, and this
\* cycle, timed out before its first Checker, keeps it without a lock call
C33_Witness ==
  /\ CycleDone /\ cycles = 2
  /\ results # <<>> /\ results[1].Reason = "timeout"
  /\ rcalls = <<>>
  /\ holding /\ Len(procs) = 1

\* ------------------------------------------------------------------ C34
\* C34 as stated: once the Runner's context has been cancelled the Runner
\* never calls Acquire: no step taken after the cancellation enters
\* Acquire, starts an external process or turns an idle Lock into a held
\* one.
C34_NoAcquireAfterCancel ==
  [][cancelled
       => /\ ~(pc[Runner] # "acq_lock" /\ pc'[Runner] = "acq_lock")
          /\ Len(procs') = Len(procs)
          /\ (holding' => holding)]_vars

\* ------------------------------------------------------------------ C35
\* C35: Run never returns while its context is not cancelled, and once the
\* context is cancelled Run eventually returns, with the context's non-nil
\* cancellation error, given that every Checker call and lock call returns
\* and that the select is fair to the cancellation
C35_ReturnsIffCancelled ==
  /\ [](pc[Runner] = "returned" => (cancelled /\ retval = Canceled))
  /\ [](pc[Runner] # "returned" => retval = "")
  /\ (cancelled ~> pc[Runner] = "returned")

\* Run has returned the cancellation error, after a cancellation that came
\* while a poll cycle was running
C35_Witness ==
  /\ pc[Runner] = "returned"
  /\ retval = Canceled
  /\ atCancel.seen /\ atCancel.pc = "busy"

\* ------------------------------------------------------------------ C36
\* C36 as stated: whenever Update(reason) returns success, the Lock is held
\* by a process started with that reason (l.Why for an empty reason), also
\* when other callers use the Lock concurrently.
C36_UpdateSetsReason ==
  [][\A t \in Clients :
       (op[t] = "Update" /\ pc[t] # "idle" /\ pc'[t] = "idle" /\ res'[t] = "nil")
         => (/\ holding'
             /\ ~cmd'.nil /\ cmd'.Process \in 1..Len(procs')
             /\ cmd'.why = WhyOf(arg[t])
             /\ procs'[cmd'.Process].why = WhyOf(arg[t]))]_vars

\* ------------------------------------------------------------------ C37
\* checkAndUpdate of the command has returned to the main loop
UpdateDone(c) == side.called /\ side.cmd = c /\ pc[Main] = "idle"

\* it made no lock call, or the one it made returned nil
UpdateCallOk == side.calls = <<>> \/ (Len(side.calls) = 1 /\ res[Main] = "nil")

\* raid.Check returned an error or reported unhealthy
RaidBad == side.out.err # "" \/ ~side.out.healthy

\* C37: checkAndUpdate of raid-inhibitor is fail-closed. After each call in
\* which the lock operation (if any) succeeded, the lock is held iff
\* raid.Check returned an error or reported unhealthy; a check error
\* acquires an idle lock and never releases a held one; no lock call is
\* made when the lock state already matches.
C37_RaidFailClosed ==
  UpdateDone("raid-inhibitor")
    => /\ UpdateCallOk => (holding <=> RaidBad)
       /\ side.out.err # ""
            => /\ side.start.held => (side.calls = <<>> /\ holding)
               /\ ~side.start.held
                    => side.calls = <<[op |-> "Acquire",
                                       arg |-> "RAID check error: " \o side.out.err]>>
       /\ (side.start.held <=> RaidBad) => side.calls = <<>>
       /\ ~(side.start.held <=> RaidBad) => Len(side.calls) = 1

\* the status file cannot be read while the lock is idle: checkAndUpdate
\* has acquired the lock, with the error as the reason
C37_Witness ==
  /\ UpdateDone("raid-inhibitor")
  /\ side.out.err # "" /\ ~side.start.held
  /\ holding /\ cmd.Process \in Alive
  /\ cmd.why = "RAID check error: failed to read mdstat: " \o OpenErr

\* ------------------------------------------------------------------ C38
\* the Lock and its processes are as they were when checkAndUpdate started
LockUntouched ==
  /\ holding = side.start.held
  /\ cmd = side.start.cmd
  /\ Len(procs) = side.start.nprocs
  /\ Cardinality({p \in 1..Len(procs) : procs[p].killed}) = side.start.nkilled

\* C38 as stated: checkAndUpdate of jellyfin-inhibitor leaves the lock
\* unchanged on every call in which the query fails, and on a successful
\* query the lock ends held iff active streams were reported.
C38_HeldIffStreams ==
  UpdateDone("jellyfin-inhibitor")
    => /\ side.out.err # "" => (side.calls = <<>> /\ LockUntouched)
       /\ side.out.err = "" => (holding <=> side.out.hasStreams)

\* C38 amended: on a failed query checkAndUpdate makes no lock call and
\* leaves the lock as it was, no process being started or stopped; on a
\* successful query it makes at most one lock call, none when the lock
\* state already matches, and the lock ends held iff active streams were
\* reported provided that call (if any) succeeded; when the call fails the
\* lock stays as it was.
C38_HeldIffStreamsIfCallOk ==
  UpdateDone("jellyfin-inhibitor")
    => /\ side.out.err # "" => (side.calls = <<>> /\ LockUntouched)
       /\ side.out.err = ""
            => /\ UpdateCallOk => (holding <=> side.out.hasStreams)
               /\ ~UpdateCallOk => holding = side.start.held
               /\ (side.start.held <=> side.out.hasStreams) => side.calls = <<>>
               /\ ~(side.start.held <=> side.out.hasStreams) => Len(side.calls) = 1

\* the query fails while the lock is held for a stream: the lock is still
\* held by the same process
C38_Witness ==
  /\ UpdateDone("jellyfin-inhibitor")
  /\ side.out.err # ""
  /\ side.start.held /\ holding /\ cmd.Process \in Alive
  /\ LockUntouched

\* ------------------------------------------------------------------ C39
\* every header line yields one record, in document order, and nothing else
\* yields a record
OneRecordPerHeader(lines, sts) ==
  /\ Len(sts) = Cardinality(Heads(lines))
  /\ \A r \in 1..Len(sts) :
       /\ sts[r].Name = lines[HeadOf(lines, r)].array
       /\ sts[r].Level = lines[HeadOf(lines, r)].level

Expects(exp, name) == \E k \in 1..Len(exp) : exp[k] = name

\* C39 as stated: an array whose header line is followed by no slot-status
\* line before the next header or the end of input is returned with
\* Healthy = false, Rebuilding = false and an empty DeviceList, and raid.Check
\* on an expected array with such a record reports it unhealthy as degraded;
\* every header line yields exactly one record, in document order, and lines
\* before the first header yield none.
C39_NoSlotLineIsDegraded ==
  CheckCalled =>
    /\ OneRecordPerHeader(call.in, call.statuses)
    /\ \A r \in 1..Len(call.statuses) :
         SlotLines(call.in, r) = {} =>
           LET st == call.statuses[r]
           IN /\ ~st.Healthy /\ ~st.Rebuilding /\ st.DeviceList = ""
              /\ Expects(call.expected, st.Name)
                   => (~call.out.healthy /\ call.out.reason = st.Name \o " degraded: ")

\* C39 amended: a record without a slot-status line has Healthy = false and
\* an empty DeviceList; it has Rebuilding = true iff a recovery line stands
\* in it. raid.Check on an expected list that names such a record returns
\* unhealthy, and when the record is the first unhealthy record of the first
\* failing expected array the reason is "<name> degraded: " if it has no
\* recovery line and "<name> rebuilding: <progress>" if it has one. Every
\* header line yields exactly one record, in document order, and lines
\* before the first header yield none.
C39_NoSlotLineIsUnhealthy ==
  CheckCalled =>
    /\ OneRecordPerHeader(call.in, call.statuses)
    /\ \A r \in 1..Len(call.statuses) :
         SlotLines(call.in, r) = {} =>
           LET st == call.statuses[r]
               fail == Failing(call.statuses, call.expected)
               first == /\ fail # {}
                        /\ call.expected[Lowest(fail)] = st.Name
                        /\ \A j \in Matching(call.statuses, st.Name) :
                             j < r => call.statuses[j].Healthy
               recovering == RecoveryLines(call.in, r) # {}
           IN /\ ~st.Healthy /\ st.DeviceList = "" /\ st.Devices = 0 /\ st.Active = 0
              /\ st.Rebuilding <=> recovering
              /\ Expects(call.expected, st.Name) => ~call.out.healthy
              /\ (first /\ ~recovering) => call.out.reason = st.Name \o " degraded: "
              /\ (first /\ recovering) => call.out.reason = RebuildingReason(st)

\* a slot line above the first header, the header of md0 and a line without
\* markers: one record, reported as degraded with an empty device list
C39_Witness ==
  /\ CheckCalled
  /\ call.expected = <<"md0">>
  /\ Len(call.in) = 3
  /\ call.in[1].array = "" /\ call.in[1].bitmap = <<"U", "U">>
  /\ call.in[2].array = "md0"
  /\ call.in[3] = Line("", "", <<>>, 0, 0, "", "")
  /\ Len(call.statuses) = 1
  /\ ~call.statuses[1].Healthy /\ ~call.statuses[1].Rebuilding
  /\ call.statuses[1].DeviceList = ""
  /\ ~call.out.healthy /\ call.out.reason = "md0 degraded: "

\* ------------------------------------------------------------------ C40
\* C40: transmissionChecker.Check terminates for every behaviour of the
\* server: a Check call that has started returns to its caller, also when
\* the server answers 409 Conflict to every request.
C40_CheckTerminates == (tx.pc # "idle") ~> (tx.pc = "idle" /\ tx.out.returned)

\* what the code does give: a Check call whose context has a deadline
\* returns, the request made after the deadline failing in client.Do
CheckTerminatesWithDeadline ==
  (tx.pc # "idle" /\ tx.ctx # "background") ~> (tx.pc = "idle" /\ tx.out.returned)

====
